---- MODULE Spec2Model ----
(***************************************************************************)
(* Model of the real-time transport of ralph-groupscholar/slack:           *)
(*   - the relay (src/src/bin/mock_server.rs): accept loop, Registry       *)
(*     (subscribers), broadcast_text, one Connection Handler per socket;   *)
(*   - the client session (src/src/main.rs): RealtimeClient (the Session   *)
(*     Handle) and the thread of spawn_realtime_worker (Session Worker).   *)
(* RelaySpec runs the relay against peers that send frames and go away;    *)
(* Spec runs one Session Handle and its worker against a remote end.       *)
(***************************************************************************)
EXTENDS Integers, Sequences, FiniteSets, TLC

\* ------------------------------------------------------------------ bounds
MaxConns == 3      \* channels the Registry may hold (RegistrySpec)
MaxAccepts == 2    \* connections the accept loop takes (RelaySpec)
MaxFrames == 2     \* frames the peers send (RelaySpec), broadcasts (RegistrySpec)

Conn == 1..MaxConns

\* Option<T>: None is the empty sequence, Some(x) the sequence of x alone.
None == <<>>
Some(x) == <<x>>

\* In a JSON text: the value null, and a key the text does not have.
Null == "null"
Absent == "absent"

\* A String built by format! is the sequence of its parts; Str(s) is a literal.
Str(s) == <<s>>

\* The decimal text of an i64, as format! and to_string write it.
I64Str(n) == CASE n = 1 -> "1" [] n = 2 -> "2" [] n = 3 -> "3" [] OTHER -> "0"

\* ------------------------------------------------------------ wire texts
\* A text frame is modelled by the JSON object (or other text) it spells. The
\* optional key "attachments" is None when the text has no such key.
MsgText(author, body, sent_at, channel_id, client_id, attachments) ==
    [form |-> "json", type |-> "message", author |-> author, body |-> body,
     sent_at |-> sent_at, channel_id |-> channel_id, client_id |-> client_id,
     attachments |-> attachments]

AuthText(token, user) ==
    [form |-> "json", type |-> "auth", token |-> token, user |-> user]

AckText(kind, detail) ==
    [form |-> "json", type |-> "ack", kind |-> kind, detail |-> detail]

PresenceText(user, status) ==
    [form |-> "json", type |-> "presence", user |-> user, status |-> status]

\* A frame that is no JSON object of the tagged union: plain text, given by
\* the fields its tab characters separate.
PlainText(fields) == [form |-> "plain", fields |-> fields]

\* A JSON object that is no RealtimePayload: its "type" is none of the four
\* tags, or it has none (Absent). It is given by that discriminator and by
\* the fields the tab characters of its text separate (a tab between two
\* JSON tokens is whitespace).
ObjectText(type, fields) == [form |-> "object", type |-> type, fields |-> fields]

\* ------------------------------------------------- relay: RealtimePayload
\* serde_json::from_str::<RealtimePayload> of mock_server.rs: the relay's
\* Message variant has no attachments field, unknown fields are ignored.
ServerDecode(text) ==
    IF text.form # "json" THEN [variant |-> "Err"]
    ELSE CASE text.type = "message" ->
                [variant |-> "Message", author |-> text.author, body |-> text.body,
                 sent_at |-> text.sent_at, channel_id |-> text.channel_id,
                 client_id |-> IF text.client_id \in {Null, Absent} THEN None
                               ELSE Some(text.client_id)]
           [] text.type = "auth" ->
                [variant |-> "Auth", token |-> text.token, user |-> text.user]
           [] text.type = "ack" ->
                [variant |-> "Ack", kind |-> text.kind, detail |-> text.detail]
           [] text.type = "presence" ->
                [variant |-> "Presence", user |-> text.user, status |-> text.status]
           [] OTHER -> [variant |-> "Err"]

\* serde_json::to_string of the relay's RealtimePayload.
ServerEncode(p) ==
    CASE p.variant = "Message" ->
            MsgText(p.author, p.body, p.sent_at, p.channel_id,
                    IF p.client_id = None THEN Null ELSE p.client_id[1], None)
      [] p.variant = "Auth" -> AuthText(p.token, p.user)
      [] p.variant = "Ack" -> AckText(p.kind, p.detail)
      [] p.variant = "Presence" -> PresenceText(p.user, p.status)

\* format!("stored for {author} in channel {channel_id}")
StoredDetail(author, channel_id) ==
    <<"stored for ", author, " in channel ", I64Str(channel_id)>>

\* format!("welcome {user}")
WelcomeDetail(user) == <<"welcome ", user>>

\* The Ack the handler builds for a decoded Message or Auth payload.
AckFor(p) ==
    IF p.variant = "Message"
    THEN [variant |-> "Ack", kind |-> "message",
          detail |-> StoredDetail(p.author, p.channel_id)]
    ELSE [variant |-> "Ack", kind |-> "auth", detail |-> WelcomeDetail(p.user)]

\* Mutant of BroadcastTextFor: the decoded payload is serialized again.
BroadcastReencoded(text) ==
    LET p == ServerDecode(text)
    IN  IF p.variant = "Auth"
        THEN ServerEncode([variant |-> "Presence", user |-> p.user, status |-> "online"])
        ELSE IF p.variant = "Err" THEN text ELSE ServerEncode(p)

\* The text the handler hands to broadcast_text for a frame it read:
\* the raw text for a Message or an undecodable frame, the serialized
\* Presence{user, "online"} for an Auth.
BroadcastTextFor(text) ==
    LET p == ServerDecode(text)
    IN  IF p.variant = "Auth"
        THEN ServerEncode([variant |-> "Presence", user |-> p.user, status |-> "online"])
        ELSE text

\* Mutant of AfterRead: the Auth arm broadcasts without acknowledging.
AfterReadAuthUnacked(text) ==
    LET v == ServerDecode(text).variant
    IN  CASE v = "Message" -> "ack"
          [] v \in {"Err", "Auth"} -> "bcast"
          [] OTHER -> "drain"

\* Mutant of AfterRead: a frame that fails to decode is discarded.
AfterReadErrDiscarded(text) ==
    LET v == ServerDecode(text).variant
    IN  CASE v \in {"Message", "Auth"} -> "ack"
          [] OTHER -> "drain"

\* Mutant of AfterRead: a Presence frame is relayed like an opaque text.
AfterReadPresenceRelayed(text) ==
    LET v == ServerDecode(text).variant
    IN  CASE v \in {"Message", "Auth"} -> "ack"
          [] v \in {"Err", "Presence"} -> "bcast"
          [] OTHER -> "drain"

\* Where the handler goes after reading a text frame.
AfterRead(text) ==
    LET v == ServerDecode(text).variant
    IN  CASE v \in {"Message", "Auth"} -> "ack"
          [] v = "Err" -> "bcast"
          [] OTHER -> "drain"

\* The welcome Message of the accept loop (sent_at is the wall clock).
WelcomeText ==
    ServerEncode([variant |-> "Message", author |-> "ralph-bot",
                  body |-> Str("Connected to mock server."), sent_at |-> "now",
                  channel_id |-> 1, client_id |-> None])

\* ------------------------------------------------- relay: broadcast_text
\* Mutant of ToRemove: a failed send is not noted.
ToRemoveNone(list, alive, idx) == <<>>

\* First loop: the indexes of the senders whose send fails (receiver gone).
RECURSIVE ToRemove(_, _, _)
ToRemove(list, alive, idx) ==
    IF idx > Len(list) THEN <<>>
    ELSE IF alive[list[idx]] THEN ToRemove(list, alive, idx + 1)
         ELSE <<idx>> \o ToRemove(list, alive, idx + 1)

\* Vec::remove(idx)
RemoveAt(list, idx) ==
    SubSeq(list, 1, idx - 1) \o SubSeq(list, idx + 1, Len(list))

\* Mutant of RemoveRev: the indexes are removed first to last, each removal
\* shifting the entries the later indexes name.
RECURSIVE RemoveFwd(_, _)
RemoveFwd(list, to_remove) ==
    IF to_remove = <<>> THEN list
    ELSE RemoveFwd(RemoveAt(list, to_remove[1]), Tail(to_remove))

\* Second loop: to_remove.into_iter().rev(), list.remove(idx).
RECURSIVE RemoveRev(_, _)
RemoveRev(list, to_remove) ==
    IF to_remove = <<>> THEN list
    ELSE RemoveRev(RemoveAt(list, to_remove[Len(to_remove)]),
                   SubSeq(to_remove, 1, Len(to_remove) - 1))

\* The list broadcast_text leaves.
Pruned(list, alive) == RemoveRev(list, ToRemove(list, alive, 1))

\* First loop, the sends: sender.send(text) for each list entry in turn; the
\* text is queued iff that channel's receiver is alive.
RECURSIVE SendAll(_, _, _, _, _)
SendAll(list, alive, q, text, idx) ==
    IF idx > Len(list) THEN q
    ELSE SendAll(list, alive,
                 IF alive[list[idx]]
                 THEN [q EXCEPT ![list[idx]] = Append(@, text)]
                 ELSE q,
                 text, idx + 1)

\* ---------------------------------------------------------------- state
VARIABLES
    \* relay (mock_server.rs)
    subscribers,   \* the Registry: Vec<mpsc::Sender<String>>, by connection
    rxAlive,       \* rxAlive[c]: the receiver of c's channel is not dropped
    queue,         \* queue[c]: texts in c's channel, not yet received
    enq,           \* history: every text ever queued on c's channel
    sockOut,       \* sockOut[c]: frames the relay wrote on c's socket
    sockIn,        \* sockIn[c]: frames peer c sent, not yet read
    peerOpen,      \* peerOpen[c]: peer c has not gone away
    hpc,           \* hpc[c]: position of c's handler thread
    hframe,        \* hframe[c]: the text frame the handler is reacting to
    hlog,          \* history: what c's handler did (read, ack, bcast)
    blog,          \* history: the texts given to broadcast_text, pass by pass
    nconn,         \* connections accepted so far
    apc,           \* position of the accept loop
    nsent          \* frames sent by peers so far

relayVars == <<subscribers, rxAlive, queue, enq, sockOut, sockIn, peerOpen,
               hpc, hframe, hlog, blog, nconn, apc, nsent>>

VARIABLES
    \* Session Handle (RealtimeClient, main.rs)
    status,             \* RealtimeClient.status
    last_message,       \* RealtimeClient.last_message
    last_error,         \* RealtimeClient.last_error
    incoming,           \* RealtimeClient.incoming
    incoming_presence,  \* RealtimeClient.incoming_presence
    cmd_tx,             \* RealtimeClient.cmd_tx is Some: the worker was spawned
    workers,            \* worker threads spawned for the handle so far
    cmd_chan,           \* commands sent on cmd_tx, not yet received
    evt_chan,           \* events sent on evt_tx, not yet received
    \* Session Worker (the thread of spawn_realtime_worker)
    connected,          \* the local `connected`
    socket,             \* the local `socket`: 0 is None, n > 0 the n-th socket dialled
    wpc,                \* position of the worker thread
    \* the remote end of the worker's socket
    inbox,              \* frames the remote end sent, not yet read
    remoteUp,           \* the remote end has not gone away
    \* history
    dials,              \* dial attempts so far
    wire,               \* the frames written on the socket last dialled
    dropped,            \* the sockets the worker dropped
    elast,              \* the event emitted last, if any
    wlast,              \* what the worker's last step was
    ncmd,               \* commands issued so far
    nin,                \* frames the remote end sent so far
    rlog,               \* the text frames the worker read, in order
    taken,              \* what take_incoming returned so far, in order
    takenp,             \* what take_presence returned so far, in order
    polled              \* the events the last poll drained, in order

handleVars ==
    <<status, last_message, last_error, incoming, incoming_presence, cmd_tx, workers>>
workerVars == <<connected, socket, wpc>>
remoteVars == <<inbox, remoteUp, nin>>
histVars == <<dials, wire, dropped, elast, wlast>>
flowVars == <<rlog, taken, takenp, polled>>
clientVars ==
    <<handleVars, workerVars, remoteVars, histVars, flowVars, cmd_chan, evt_chan, ncmd>>

VARIABLES
    \* the Registry lock (mock_server.rs), statement by statement
    lock,          \* the thread holding the Mutex of subscribers; 0 when free
    pass,          \* pass[t]: where thread t is inside broadcast_text
    \* the Wire Codec applied to one input (main.rs)
    codec,         \* the input, the frame text and the decode result
    \* a session connected to the relay, with a second client as its peer
    net,           \* how many frames of each socket the network has delivered
    peer           \* the second client: its socket's inbox, event queue, handle

e2eVars == <<net, peer>>

auxVars == <<lock, pass, codec, e2eVars>>

vars == <<relayVars, clientVars, auxVars>>

\* The handler holds no frame.
NoFrame == [form |-> "none"]

\* A thread that is not inside broadcast_text.
IdlePass == [pc |-> "idle", idx |-> 0, to_remove |-> <<>>, text |-> NoFrame]

\* The codec has been given no input.
NoCodec == [pc |-> "none"]

\* No session is connected to the relay, there is no second client.
NoNet == [up |-> 0, down |-> [c \in Conn |-> 0]]
NoPeer == [inbox |-> <<>>, evt_chan |-> <<>>, incoming |-> <<>>]

AuxInit ==
    /\ lock = 0
    /\ pass = [t \in Conn |-> IdlePass]
    /\ codec = NoCodec
    /\ net = NoNet
    /\ peer = NoPeer

\* Frames a peer may send to the relay.
PeerFrames ==
    { MsgText("you", Str("hi"), "09:15", 1, Null, Some(<<"a.png">>)),
      AuthText("local-dev", "mara"),
      PresenceText("mara", "away"),
      AckText("auth", WelcomeDetail("mara")),
      PlainText(<<"not json, not legacy">>) }

RelayInit ==
    /\ subscribers = <<>>
    /\ rxAlive = [c \in Conn |-> FALSE]
    /\ queue = [c \in Conn |-> <<>>]
    /\ enq = [c \in Conn |-> <<>>]
    /\ sockOut = [c \in Conn |-> <<>>]
    /\ sockIn = [c \in Conn |-> <<>>]
    /\ peerOpen = [c \in Conn |-> TRUE]
    /\ hpc = [c \in Conn |-> "none"]
    /\ hframe = [c \in Conn |-> NoFrame]
    /\ hlog = [c \in Conn |-> <<>>]
    /\ blog = <<>>
    /\ nconn = 0
    /\ apc = "accept"
    /\ nsent = 0

\* socket.send on c's socket: the frame reaches the peer iff the write is ok.
SocketSend(out, c, text, ok) ==
    IF ok THEN [out EXCEPT ![c] = Append(@, text)] ELSE out

\* Outcomes of socket.send in the drain loop: a write to a peer that went away
\* fails; a write to a live peer succeeds, or fails with would-block (the
\* socket is non-blocking). A frame written with send_payload, which ignores
\* the result, reaches the peer iff the peer is still there.
WriteOk(c) == IF peerOpen[c] THEN BOOLEAN ELSE {FALSE}

\* The drain loop `while let Ok(payload) = rx.try_recv()`: the handler stays in
\* it while its channel holds a text, then sleeps and reads again.
DrainOrRead(q) == IF q # <<>> THEN "drain" ELSE "read"

\* The relay process runs: main has not returned.
Serving == apc # "exited"

\* let (tx, rx) = mpsc::channel(); subscribers.lock().push(tx)
Register(c) ==
    /\ c = nconn + 1
    /\ nconn' = c
    /\ rxAlive' = [rxAlive EXCEPT ![c] = TRUE]
    /\ subscribers' = Append(subscribers, c)

\* broadcast_text(&subscribers, text): the whole pass, under the lock
BroadcastPass(text) ==
    /\ queue' = SendAll(subscribers, rxAlive, queue, text, 1)
    /\ enq' = SendAll(subscribers, rxAlive, enq, text, 1)
    /\ subscribers' = Pruned(subscribers, rxAlive)
    /\ blog' = Append(blog, text)

\* The accept loop takes the next connection and registers its Subscriber.
Accept(c) ==
    /\ apc = "accept"
    /\ c <= MaxAccepts
    /\ Register(c)
    /\ apc' = "welcome"
    /\ UNCHANGED <<queue, enq, sockOut, sockIn, peerOpen, hpc, hframe, hlog, blog, nsent>>
    /\ UNCHANGED <<clientVars, auxVars>>

\* `let stream = stream?` or `accept(stream)?` meets an error: the incoming
\* connection or its WebSocket handshake failed, main returns the error and
\* the process ends, its handler threads with it, each where it stands.
AcceptErr ==
    /\ apc = "accept"
    /\ apc' = "exited"
    /\ UNCHANGED <<subscribers, rxAlive, queue, enq, sockOut, sockIn, peerOpen, hpc, hframe,
                   hlog, blog, nconn, nsent>>
    /\ UNCHANGED <<clientVars, auxVars>>

\* Mutant of Welcome: the welcome goes through the Registry.
WelcomeViaBroadcast ==
    /\ apc = "welcome"
    /\ BroadcastPass(WelcomeText)
    /\ hpc' = [hpc EXCEPT ![nconn] = "read"]
    /\ apc' = "accept"
    /\ UNCHANGED <<rxAlive, sockOut, sockIn, peerOpen, hframe, hlog, nconn, nsent>>
    /\ UNCHANGED <<clientVars, auxVars>>

\* send_payload(&mut socket, &welcome); thread::spawn(handler)
Welcome ==
    /\ apc = "welcome"
    /\ sockOut' = SocketSend(sockOut, nconn, WelcomeText, peerOpen[nconn])
    /\ hpc' = [hpc EXCEPT ![nconn] = "read"]
    /\ apc' = "accept"
    /\ UNCHANGED <<subscribers, rxAlive, queue, enq, sockIn, peerOpen, hframe, hlog, blog,
                   nconn, nsent>>
    /\ UNCHANGED <<clientVars, auxVars>>

\* socket.read() returns Ok(WsMessage::Text(text))
HReadText(c) ==
    /\ Serving
    /\ hpc[c] = "read"
    /\ sockIn[c] # <<>>
    /\ LET text == Head(sockIn[c])
       IN  /\ sockIn' = [sockIn EXCEPT ![c] = Tail(@)]
           /\ hframe' = [hframe EXCEPT ![c] = text]
           /\ hlog' = [hlog EXCEPT ![c] = Append(@, [op |-> "read", text |-> text])]
           /\ hpc' = [hpc EXCEPT ![c] =
                        IF AfterRead(text) = "drain" THEN DrainOrRead(queue[c])
                        ELSE AfterRead(text)]
    /\ UNCHANGED <<subscribers, rxAlive, queue, enq, sockOut, peerOpen, blog, nconn, apc,
                   nsent>>
    /\ UNCHANGED <<clientVars, auxVars>>

\* socket.read() returns Err(Io(WouldBlock)): not fatal, on to the drain
HReadWouldBlock(c) ==
    /\ Serving
    /\ hpc[c] = "read"
    /\ sockIn[c] = <<>>
    /\ peerOpen[c]
    /\ hpc' = [hpc EXCEPT ![c] = DrainOrRead(queue[c])]
    /\ UNCHANGED <<subscribers, rxAlive, queue, enq, sockOut, sockIn, peerOpen, hframe,
                   hlog, blog, nconn, apc, nsent>>
    /\ UNCHANGED <<clientVars, auxVars>>

\* The handler thread ends: its closure, and the receiver in it, is dropped.
HandlerExit(c) ==
    /\ hpc' = [hpc EXCEPT ![c] = "exited"]
    /\ rxAlive' = [rxAlive EXCEPT ![c] = FALSE]
    /\ queue' = [queue EXCEPT ![c] = <<>>]

\* socket.read() returns any other error: break
HReadFatal(c) ==
    /\ Serving
    /\ hpc[c] = "read"
    /\ sockIn[c] = <<>>
    /\ ~peerOpen[c]
    /\ HandlerExit(c)
    /\ UNCHANGED <<subscribers, enq, sockOut, sockIn, peerOpen, hframe, hlog, blog, nconn,
                   apc, nsent>>
    /\ UNCHANGED <<clientVars, auxVars>>

\* send_payload(&mut socket, &ack) of the Message and Auth arms
HAck(c) ==
    /\ Serving
    /\ hpc[c] = "ack"
    /\ LET ack == ServerEncode(AckFor(ServerDecode(hframe[c])))
       IN  /\ sockOut' = SocketSend(sockOut, c, ack, peerOpen[c])
           /\ hlog' = [hlog EXCEPT ![c] = Append(@, [op |-> "ack", text |-> ack])]
    /\ hpc' = [hpc EXCEPT ![c] = "bcast"]
    /\ UNCHANGED <<subscribers, rxAlive, queue, enq, sockIn, peerOpen, hframe, blog,
                   nconn, apc, nsent>>
    /\ UNCHANGED <<clientVars, auxVars>>

\* Mutant of HBroadcast: the pass leaves out the channel of the handler that
\* runs it.
HBroadcastToOthers(c) ==
    /\ Serving
    /\ hpc[c] = "bcast"
    /\ LET text == BroadcastTextFor(hframe[c])
       IN  /\ queue' = [SendAll(subscribers, rxAlive, queue, text, 1) EXCEPT ![c] = queue[c]]
           /\ enq' = [SendAll(subscribers, rxAlive, enq, text, 1) EXCEPT ![c] = enq[c]]
           /\ subscribers' = Pruned(subscribers, rxAlive)
           /\ blog' = Append(blog, text)
           /\ hlog' = [hlog EXCEPT ![c] = Append(@, [op |-> "bcast", text |-> text])]
    /\ hframe' = [hframe EXCEPT ![c] = NoFrame]
    /\ hpc' = [hpc EXCEPT ![c] = DrainOrRead(queue'[c])]
    /\ UNCHANGED <<rxAlive, sockOut, sockIn, peerOpen, nconn, apc, nsent>>
    /\ UNCHANGED <<clientVars, auxVars>>

\* broadcast_text(&subscribers, &text) / (&subscribers, &payload) of the arms
HBroadcast(c) ==
    /\ Serving
    /\ hpc[c] = "bcast"
    /\ LET text == BroadcastTextFor(hframe[c])
       IN  /\ BroadcastPass(text)
           /\ hlog' = [hlog EXCEPT ![c] = Append(@, [op |-> "bcast", text |-> text])]
    /\ hframe' = [hframe EXCEPT ![c] = NoFrame]
    /\ hpc' = [hpc EXCEPT ![c] = DrainOrRead(queue'[c])]
    /\ UNCHANGED <<rxAlive, sockOut, sockIn, peerOpen, nconn, apc, nsent>>
    /\ UNCHANGED <<clientVars, auxVars>>

\* Mutant of HDrainOne: the drain takes the newest text of the channel first.
HDrainNewestFirst(c) ==
    /\ Serving
    /\ hpc[c] = "drain"
    /\ queue[c] # <<>>
    /\ \E ok \in WriteOk(c) :
          IF ok
          THEN /\ sockOut' = SocketSend(sockOut, c, queue[c][Len(queue[c])], TRUE)
               /\ queue' = [queue EXCEPT ![c] = SubSeq(@, 1, Len(@) - 1)]
               /\ hpc' = [hpc EXCEPT ![c] = DrainOrRead(queue'[c])]
               /\ UNCHANGED rxAlive
          ELSE /\ HandlerExit(c)
               /\ UNCHANGED sockOut
    /\ UNCHANGED <<subscribers, enq, sockIn, peerOpen, hframe, hlog, blog, nconn, apc, nsent>>
    /\ UNCHANGED <<clientVars, auxVars>>

\* while let Ok(payload) = rx.try_recv(): socket.send(Text(payload)), return on error
HDrainOne(c) ==
    /\ Serving
    /\ hpc[c] = "drain"
    /\ queue[c] # <<>>
    /\ \E ok \in WriteOk(c) :
          IF ok
          THEN /\ sockOut' = SocketSend(sockOut, c, Head(queue[c]), TRUE)
               /\ queue' = [queue EXCEPT ![c] = Tail(@)]
               /\ hpc' = [hpc EXCEPT ![c] = DrainOrRead(queue'[c])]
               /\ UNCHANGED rxAlive
          ELSE /\ HandlerExit(c)
               /\ UNCHANGED sockOut
    /\ UNCHANGED <<subscribers, enq, sockIn, peerOpen, hframe, hlog, blog, nconn, apc, nsent>>
    /\ UNCHANGED <<clientVars, auxVars>>

\* Peer c sends a text frame on its socket.
PeerSend(c, text) ==
    /\ c <= nconn
    /\ peerOpen[c]
    /\ nsent < MaxFrames
    /\ nsent' = nsent + 1
    /\ sockIn' = [sockIn EXCEPT ![c] = Append(@, text)]
    /\ UNCHANGED <<subscribers, rxAlive, queue, enq, sockOut, peerOpen, hpc, hframe,
                   hlog, blog, nconn, apc>>
    /\ UNCHANGED <<clientVars, auxVars>>

\* Peer c goes away.
PeerClose(c) ==
    /\ c <= nconn
    /\ peerOpen[c]
    /\ peerOpen' = [peerOpen EXCEPT ![c] = FALSE]
    /\ UNCHANGED <<subscribers, rxAlive, queue, enq, sockOut, sockIn, hpc, hframe,
                   hlog, blog, nconn, apc, nsent>>
    /\ UNCHANGED <<clientVars, auxVars>>

RelayNext ==
    \/ \E c \in Conn : Accept(c)
    \/ AcceptErr
    \/ Welcome
    \/ \E c \in Conn : HReadText(c)
    \/ \E c \in Conn : HReadWouldBlock(c)
    \/ \E c \in Conn : HReadFatal(c)
    \/ \E c \in Conn : HAck(c)
    \/ \E c \in Conn : HBroadcast(c)
    \/ \E c \in Conn : HDrainOne(c)
    \/ \E c \in Conn, text \in PeerFrames : PeerSend(c, text)
    \/ \E c \in Conn : PeerClose(c)


\* --------------------------------------------- the Registry on its own
\* The Registry with its users reduced to what they do to it: a connection
\* registers a channel, any thread broadcasts a text, the owner of a receiver
\* takes a text from it or ends (dropping it).
RegRegister(c) ==
    /\ Register(c)
    /\ UNCHANGED <<queue, enq, sockOut, sockIn, peerOpen, hpc, hframe, hlog, blog, apc,
                   nsent>>
    /\ UNCHANGED <<clientVars, auxVars>>

RegBroadcast(text) ==
    /\ Len(blog) < MaxFrames
    /\ BroadcastPass(text)
    /\ UNCHANGED <<rxAlive, sockOut, sockIn, peerOpen, hpc, hframe, hlog, nconn, apc,
                   nsent>>
    /\ UNCHANGED <<clientVars, auxVars>>

\* rx.try_recv() returns Ok(payload)
RegRecv(c) ==
    /\ rxAlive[c]
    /\ queue[c] # <<>>
    /\ queue' = [queue EXCEPT ![c] = Tail(@)]
    /\ UNCHANGED <<subscribers, rxAlive, enq, sockOut, sockIn, peerOpen, hpc, hframe,
                   hlog, blog, nconn, apc, nsent>>
    /\ UNCHANGED <<clientVars, auxVars>>

\* the thread owning the receiver ends
RegDrop(c) ==
    /\ rxAlive[c]
    /\ rxAlive' = [rxAlive EXCEPT ![c] = FALSE]
    /\ queue' = [queue EXCEPT ![c] = <<>>]
    /\ UNCHANGED <<subscribers, enq, sockOut, sockIn, peerOpen, hpc, hframe, hlog, blog,
                   nconn, apc, nsent>>
    /\ UNCHANGED <<clientVars, auxVars>>

RegistryNext ==
    \/ \E c \in Conn : RegRegister(c)
    \/ \E text \in PeerFrames : RegBroadcast(text)
    \/ \E c \in Conn : RegRecv(c)
    \/ \E c \in Conn : RegDrop(c)


\* =================================================== the client session
MaxCmds == 2       \* commands the owner issues
MaxInbound == 1    \* frames the remote end sends to the worker

\* ------------------------------- the Registry lock, statement by statement
\* broadcast_text and the registration with the Mutex of subscribers made
\* explicit: a pass takes the lock, sends to one list entry per step, then
\* removes the dead entries and lets go of the lock.

\* Mutant of LockFree: lock() returns whether or not the Mutex is held.
LockNeverHeld(holder) == TRUE

\* subscribers.lock() returns once no thread holds the Mutex.
LockFree(holder) == holder = 0

\* thread::spawn has started the handler of connection t.
Spawned(t) == t < nconn \/ (t = nconn /\ apc = "accept")

\* The text of the n-th pass.
PassText(n) == PlainText(<<"pass", I64Str(n)>>)

\* subscribers.lock().expect("subscribers").push(tx): the guard lives for
\* this statement only.
LockRegister(c) ==
    /\ apc = "accept"
    /\ LockFree(lock)
    /\ Register(c)
    /\ apc' = "welcome"
    /\ UNCHANGED <<queue, enq, sockOut, sockIn, peerOpen, hpc, hframe, hlog, blog, nsent>>
    /\ UNCHANGED <<lock, pass, codec, e2eVars, clientVars>>

\* send_payload(&mut socket, &welcome), outside of any lock
LockWelcome ==
    /\ apc = "welcome"
    /\ sockOut' = SocketSend(sockOut, nconn, WelcomeText, TRUE)
    /\ apc' = "accept"
    /\ UNCHANGED <<subscribers, rxAlive, queue, enq, sockIn, peerOpen, hpc, hframe, hlog,
                   blog, nconn, nsent>>
    /\ UNCHANGED <<auxVars, clientVars>>

\* broadcast_text, `if let Ok(mut list) = subscribers.lock()`, by the
\* handler thread of connection t
LockBegin(t) ==
    /\ Spawned(t)
    /\ rxAlive[t]
    /\ pass[t].pc = "idle"
    /\ Len(blog) < MaxFrames
    /\ LockFree(lock)
    /\ lock' = t
    /\ pass' = [pass EXCEPT ![t] = [pc |-> "scan", idx |-> 1, to_remove |-> <<>>,
                                    text |-> PassText(Len(blog) + 1)]]
    /\ blog' = Append(blog, PassText(Len(blog) + 1))
    /\ UNCHANGED <<subscribers, rxAlive, queue, enq, sockOut, sockIn, peerOpen, hpc,
                   hframe, hlog, nconn, apc, nsent>>
    /\ UNCHANGED <<codec, e2eVars, clientVars>>

\* Mutant of LockSend: the pass writes the text on the entry's socket.
LockSendOnSocket(t) ==
    /\ pass[t].pc = "scan"
    /\ pass[t].idx <= Len(subscribers)
    /\ LET c == subscribers[pass[t].idx]
       IN  /\ sockOut' = SocketSend(sockOut, c, pass[t].text, TRUE)
           /\ pass' = [pass EXCEPT ![t].idx = @ + 1]
    /\ UNCHANGED <<subscribers, rxAlive, queue, enq, sockIn, peerOpen, hpc, hframe,
                   hlog, blog, nconn, apc, nsent>>
    /\ UNCHANGED <<lock, codec, e2eVars, clientVars>>

\* One turn of the first loop: sender.send(text.to_string()), and
\* to_remove.push(idx) when the receiver is gone.
LockSend(t) ==
    /\ pass[t].pc = "scan"
    /\ pass[t].idx <= Len(subscribers)
    /\ LET c == subscribers[pass[t].idx]
       IN  IF rxAlive[c]
           THEN /\ queue' = [queue EXCEPT ![c] = Append(@, pass[t].text)]
                /\ enq' = [enq EXCEPT ![c] = Append(@, pass[t].text)]
                /\ pass' = [pass EXCEPT ![t].idx = @ + 1]
           ELSE /\ pass' = [pass EXCEPT ![t].idx = @ + 1,
                                        ![t].to_remove = Append(@, pass[t].idx)]
                /\ UNCHANGED <<queue, enq>>
    /\ UNCHANGED <<subscribers, rxAlive, sockOut, sockIn, peerOpen, hpc, hframe, hlog,
                   blog, nconn, apc, nsent>>
    /\ UNCHANGED <<lock, codec, e2eVars, clientVars>>

\* The second loop and the end of the `if let` block, where the guard is
\* dropped.
LockPrune(t) ==
    /\ pass[t].pc = "scan"
    /\ pass[t].idx > Len(subscribers)
    /\ subscribers' = RemoveRev(subscribers, pass[t].to_remove)
    /\ lock' = IF lock = t THEN 0 ELSE lock
    /\ pass' = [pass EXCEPT ![t] = IdlePass]
    /\ UNCHANGED <<rxAlive, queue, enq, sockOut, sockIn, peerOpen, hpc, hframe, hlog,
                   blog, nconn, apc, nsent>>
    /\ UNCHANGED <<codec, e2eVars, clientVars>>

\* The drain loop of connection c's handler, which is not inside
\* broadcast_text: rx.try_recv() and socket.send.
LockDrain(c) ==
    /\ Spawned(c)
    /\ rxAlive[c]
    /\ pass[c].pc = "idle"
    /\ queue[c] # <<>>
    /\ sockOut' = SocketSend(sockOut, c, Head(queue[c]), TRUE)
    /\ queue' = [queue EXCEPT ![c] = Tail(@)]
    /\ UNCHANGED <<subscribers, rxAlive, enq, sockIn, peerOpen, hpc, hframe, hlog, blog,
                   nconn, apc, nsent>>
    /\ UNCHANGED <<auxVars, clientVars>>

\* Connection c's handler, which is not inside broadcast_text, ends.
LockDrop(c) ==
    /\ Spawned(c)
    /\ rxAlive[c]
    /\ pass[c].pc = "idle"
    /\ rxAlive' = [rxAlive EXCEPT ![c] = FALSE]
    /\ queue' = [queue EXCEPT ![c] = <<>>]
    /\ UNCHANGED <<subscribers, enq, sockOut, sockIn, peerOpen, hpc, hframe, hlog, blog,
                   nconn, apc, nsent>>
    /\ UNCHANGED <<auxVars, clientVars>>

LockNext ==
    \/ \E c \in Conn : LockRegister(c)
    \/ LockWelcome
    \/ \E t \in Conn : LockBegin(t)
    \/ \E t \in Conn : LockSend(t)
    \/ \E t \in Conn : LockPrune(t)
    \/ \E c \in Conn : LockDrain(c)
    \/ \E c \in Conn : LockDrop(c)

\* ------------------------------------------------ client: the Wire Codec
\* Mutant of ClientEncode: the attachments are left out of the payload.
ClientEncodeNoAttachments(message, attachments) ==
    MsgText(message.author, message.body, message.sent_at, message.channel_id, Null, None)

\* encode_realtime_message: RealtimePayload::from_message, serde_json::to_string.
\* client_id is None (written as null); an empty attachment list is skipped.
ClientEncode(message, attachments) ==
    MsgText(message.author, message.body, message.sent_at, message.channel_id, Null,
            IF attachments = <<>> THEN None ELSE Some(attachments))

\* str::parse::<i64> of a field
IsI64(f) == f \in {"0", "1", "2", "3"}
ParseI64(f) == CASE f = "1" -> 1 [] f = "2" -> 2 [] f = "3" -> 3 [] OTHER -> 0

\* Mutant of ParseLegacy: the text is split at every tab, the body is the
\* fourth field alone.
ParseLegacySplitsAll(fields) ==
    IF Len(fields) < 3 \/ ~IsI64(fields[2]) THEN None
    ELSE Some([message |-> [id |-> 0, author |-> fields[1],
                            body |-> IF Len(fields) >= 4 THEN <<fields[4]>> ELSE fields,
                            sent_at |-> fields[3], channel_id |-> ParseI64(fields[2])],
               attachments |-> <<>>])

\* parse_legacy_message: text.splitn(4, '\t'), the text given by its fields.
\* The fourth part is the rest of the text; when there is none, the body is
\* the whole text (unwrap_or(text)).
ParseLegacy(fields) ==
    IF Len(fields) < 3 \/ ~IsI64(fields[2]) THEN None
    ELSE Some([message |-> [id |-> 0, author |-> fields[1],
                            body |-> IF Len(fields) >= 4
                                     THEN SubSeq(fields, 4, Len(fields))
                                     ELSE fields,
                            sent_at |-> fields[3], channel_id |-> ParseI64(fields[2])],
               attachments |-> <<>>])

\* Mutant of ClientDecode: the key "attachments" has no serde default, a
\* Message text without it does not decode.
ClientDecodeNoDefault(text) ==
    IF text.form = "json" /\ text.type = "message" /\ text.attachments # None
    THEN [kind |-> "Message",
          inbound |-> [message |-> [id |-> 0, author |-> text.author, body |-> text.body,
                                    sent_at |-> text.sent_at,
                                    channel_id |-> text.channel_id],
                       attachments |-> text.attachments[1]]]
    ELSE [kind |-> "Err", err |-> Str("missing field attachments")]

\* decode_realtime_inbound
ClientDecode(text) ==
    IF text.form = "json" /\ text.type = "message"
    THEN [kind |-> "Message",
          inbound |-> [message |-> [id |-> 0, author |-> text.author, body |-> text.body,
                                    sent_at |-> text.sent_at,
                                    channel_id |-> text.channel_id],
                       attachments |-> IF text.attachments = None THEN <<>>
                                       ELSE text.attachments[1]]]
    ELSE IF text.form = "json" /\ text.type = "ack"
    THEN [kind |-> "Signal", signal |-> <<"Ack: ", text.kind, " (", text.detail, ")">>]
    ELSE IF text.form = "json" /\ text.type = "presence"
    THEN [kind |-> "Presence", user |-> text.user, status |-> text.status]
    ELSE IF text.form = "json" /\ text.type = "auth"
    THEN [kind |-> "Signal", signal |-> <<"Auth received for ", text.user>>]
    ELSE IF text.form \in {"plain", "object"} /\ ParseLegacy(text.fields) # None
    THEN [kind |-> "Message", inbound |-> ParseLegacy(text.fields)[1]]
    ELSE [kind |-> "Err", err |-> Str("expected value at line 1 column 1")]

\* ------------------------------------------------------ client: values
RealtimeEvent(st, message, error, inbound, presence) ==
    [status |-> st, message |-> message, error |-> error, inbound |-> inbound,
     presence |-> presence]

\* The url RealtimeClient::new is given.
target_url == "ws://127.0.0.1:9001"

\* The event of the Connect arm before the dial.
ConnectingEvent ==
    RealtimeEvent("Connecting", Some(<<"Dialing ", target_url>>), None, None, None)

\* The status the worker is in: it is Connecting while inside the dial.
WorkerStatus ==
    IF wpc = "dialing" THEN "Connecting"
    ELSE IF connected THEN "Connected" ELSE "Disconnected"

\* A RealtimeCommand; `at` is history: the worker's status when it was issued.
Command(kind, payload) == [kind |-> kind, payload |-> payload, at |-> WorkerStatus]

\* The messages the owner sends.
Messages ==
    { [message |-> [id |-> 0, author |-> "you", body |-> Str("hi"), sent_at |-> "09:15",
                    channel_id |-> 1],
       attachments |-> <<"a.png">>] }

\* The frames the remote end sends to the worker.
RemoteFrames ==
    { WelcomeText,
      AckText("auth", WelcomeDetail("you")),
      PresenceText("mara", "online"),
      PlainText(<<"not json, not legacy">>) }

\* The Auth payload of the Connect arm, serialized.
AuthPayloadText == AuthText("local-dev", "you")

\* Reasons a dial fails: Url::parse, or connect (the handshake included).
DialErrors == { Str("relative URL without a base"), Str("Connection refused") }

\* Outcomes of ws.send on the worker's socket: on a socket whose remote end
\* is there the write succeeds or reports would-block (the socket is
\* non-blocking), otherwise it fails. err.to_string() of a failure.
WriteOutcomes == IF remoteUp THEN {"ok", "would_block"} ELSE {"fatal"}
IoErrorText(outcome) ==
    IF outcome = "would_block" THEN Str("IO error: Resource temporarily unavailable")
    ELSE Str("IO error: Broken pipe")

\* err.to_string() of a failed ws.read()
ReadErrorText == Str("IO error: Connection reset by peer")

\* Outcomes of serde_json::to_string, and err.to_string() of a failure.
EncodeOutcomes == {"ok", "err"}
EncodeErrorText == Str("serialization error")

ClientInit ==
    /\ status = "Disconnected"
    /\ last_message = None
    /\ last_error = None
    /\ incoming = <<>>
    /\ incoming_presence = <<>>
    /\ cmd_tx = FALSE
    /\ workers = 0
    /\ cmd_chan = <<>>
    /\ evt_chan = <<>>
    /\ connected = FALSE
    /\ socket = 0
    /\ wpc = "idle"
    /\ inbox = <<>>
    /\ remoteUp = FALSE
    /\ dials = 0
    /\ wire = <<>>
    /\ dropped = {}
    /\ elast = None
    /\ wlast = [op |-> "none", out |-> "none"]
    /\ ncmd = 0
    /\ nin = 0
    /\ rlog = <<>>
    /\ taken = <<>>
    /\ takenp = <<>>
    /\ polled = <<>>

Init == RelayInit /\ ClientInit /\ AuxInit

\* ------------------------------------------------ client: Session Handle
\* Mutant of Issue: the command channel is a rendezvous, the send returns
\* when the worker is at its command wait.
IssueRendezvous(command) ==
    /\ wpc = "idle"
    /\ ncmd < MaxCmds
    /\ ncmd' = ncmd + 1
    /\ cmd_chan' = Append(cmd_chan, command)

\* cmd_tx.send(command), after ensure_worker
Issue(command) ==
    /\ ncmd < MaxCmds
    /\ ncmd' = ncmd + 1
    /\ cmd_chan' = Append(cmd_chan, command)

\* Mutant of SpawnsWorker: ensure_worker does not look at cmd_tx.
SpawnsWorkerAlways(tx) == TRUE

\* ensure_worker: `if self.cmd_tx.is_some() { return; }`
SpawnsWorker(tx) == ~tx

\* RealtimeClient::connect: ensure_worker, then send Connect
OwnerConnect ==
    /\ Issue(Command("Connect", None))
    /\ workers' = IF SpawnsWorker(cmd_tx) THEN workers + 1 ELSE workers
    /\ cmd_tx' = TRUE
    /\ UNCHANGED <<status, last_message, last_error, incoming, incoming_presence>>
    /\ UNCHANGED <<workerVars, remoteVars, histVars, flowVars, evt_chan, relayVars, auxVars>>

\* RealtimeClient::disconnect
OwnerDisconnect ==
    /\ IF cmd_tx
       THEN /\ Issue(Command("Disconnect", None))
            /\ UNCHANGED <<status, last_message>>
       ELSE /\ ncmd < MaxCmds
            /\ ncmd' = ncmd + 1
            /\ status' = "Disconnected"
            /\ last_message' = Some(Str("Already disconnected"))
            /\ UNCHANGED cmd_chan
    /\ UNCHANGED <<last_error, incoming, incoming_presence, cmd_tx, workers>>
    /\ UNCHANGED <<workerVars, remoteVars, histVars, flowVars, evt_chan, relayVars, auxVars>>

\* Mutant of OwnerSend: send_message starts the worker and queues the
\* command for it.
OwnerSendSpawns(m) ==
    /\ Issue(Command("SendMessage", Some(m)))
    /\ workers' = IF SpawnsWorker(cmd_tx) THEN workers + 1 ELSE workers
    /\ cmd_tx' = TRUE
    /\ UNCHANGED <<status, last_message, last_error, incoming, incoming_presence>>
    /\ UNCHANGED <<workerVars, remoteVars, histVars, flowVars, evt_chan, relayVars, auxVars>>

\* RealtimeClient::send_message
OwnerSend(m) ==
    /\ IF cmd_tx
       THEN Issue(Command("SendMessage", Some(m)))
       ELSE /\ ncmd < MaxCmds
            /\ ncmd' = ncmd + 1
            /\ UNCHANGED cmd_chan
    /\ UNCHANGED <<handleVars, workerVars, remoteVars, histVars, flowVars, evt_chan, relayVars, auxVars>>

\* Mutant of ApplyEvent: a payload is put in front of the ones collected.
ApplyEventPrepends(h, event) ==
    [status |-> event.status,
     last_message |-> event.message,
     last_error |-> event.error,
     incoming |-> event.inbound \o h.incoming,
     incoming_presence |-> event.presence \o h.incoming_presence]

\* Mutant of ApplyEvent: an event without an error leaves last_error as it is.
ApplyEventKeepsError(h, event) ==
    [status |-> event.status,
     last_message |-> event.message,
     last_error |-> IF event.error = None THEN h.last_error ELSE event.error,
     incoming |-> h.incoming \o event.inbound,
     incoming_presence |-> h.incoming_presence \o event.presence]

\* The body of poll's loop, for one event.
ApplyEvent(h, event) ==
    [status |-> event.status,
     last_message |-> event.message,
     last_error |-> event.error,
     incoming |-> h.incoming \o event.inbound,
     incoming_presence |-> h.incoming_presence \o event.presence]

\* while let Ok(event) = evt_rx.try_recv()
RECURSIVE PollLoop(_, _)
PollLoop(h, events) ==
    IF events = <<>> THEN h
    ELSE PollLoop(ApplyEvent(h, Head(events)), Tail(events))

\* RealtimeClient::poll
OwnerPoll ==
    /\ evt_chan # <<>>
    /\ LET h == PollLoop([status |-> status, last_message |-> last_message,
                          last_error |-> last_error, incoming |-> incoming,
                          incoming_presence |-> incoming_presence], evt_chan)
       IN  /\ status' = h.status
           /\ last_message' = h.last_message
           /\ last_error' = h.last_error
           /\ incoming' = h.incoming
           /\ incoming_presence' = h.incoming_presence
    /\ evt_chan' = <<>>
    /\ polled' = evt_chan
    /\ UNCHANGED <<cmd_tx, workers, cmd_chan, ncmd, workerVars, remoteVars, histVars,
                   rlog, taken, takenp, relayVars, auxVars>>

\* RealtimeClient::take_incoming
OwnerTakeIncoming ==
    /\ incoming # <<>>
    /\ incoming' = <<>>
    /\ taken' = taken \o incoming
    /\ UNCHANGED <<status, last_message, last_error, incoming_presence, cmd_tx, workers>>
    /\ UNCHANGED <<cmd_chan, evt_chan, ncmd, workerVars, remoteVars, histVars, rlog,
                   takenp, polled, relayVars, auxVars>>

\* RealtimeClient::take_presence
OwnerTakePresence ==
    /\ incoming_presence # <<>>
    /\ incoming_presence' = <<>>
    /\ takenp' = takenp \o incoming_presence
    /\ UNCHANGED <<status, last_message, last_error, incoming, cmd_tx, workers>>
    /\ UNCHANGED <<cmd_chan, evt_chan, ncmd, workerVars, remoteVars, histVars, rlog,
                   taken, polled, relayVars, auxVars>>

\* ------------------------------------------------ client: Session Worker
\* evt_tx.send(event), for each event in turn
Emit(events) ==
    /\ evt_chan' = evt_chan \o events
    /\ elast' = Some(events[Len(events)])

\* Mutant of Received: a command is taken while the dial is still running,
\* and ends it.
ReceivedPreempts(kind) ==
    /\ wpc \in {"idle", "dialing"}
    /\ cmd_chan # <<>>
    /\ Head(cmd_chan).kind = kind
    /\ cmd_chan' = Tail(cmd_chan)

\* The command cmd_rx.recv_timeout returns.
Received(kind) ==
    /\ wpc = "idle"
    /\ cmd_chan # <<>>
    /\ Head(cmd_chan).kind = kind
    /\ cmd_chan' = Tail(cmd_chan)

\* After the match on the command: `if connected` guards the read.
AfterCommand(conn) == IF conn THEN "read" ELSE "idle"

\* Mutant of DropSocket: the socket is closed but stays in the local.
DropSocketLeaves ==
    /\ socket' = socket
    /\ dropped' = dropped
    /\ inbox' = <<>>
    /\ remoteUp' = FALSE

\* socket = None (or socket.take()): the worker lets go of its socket.
DropSocket ==
    /\ socket' = 0
    /\ dropped' = IF socket = 0 THEN dropped ELSE dropped \cup {socket}
    /\ inbox' = <<>>
    /\ remoteUp' = FALSE

\* Mutant of ConnectIsNoop: the Connect arm has no `if connected` guard.
ConnectNeverNoop(conn) == FALSE

\* `if connected { continue; }` of the Connect arm
ConnectIsNoop(conn) == conn

\* Connect arm, to the dial: `if connected { continue; }`, else the Connecting
\* event and into Url::parse / connect.
WorkerConnect ==
    /\ Received("Connect")
    /\ wlast' = [op |-> "connect", out |-> WorkerStatus]
    /\ IF ConnectIsNoop(connected)
       THEN UNCHANGED <<wpc, dials, evt_chan, elast>>
       ELSE /\ Emit(<<ConnectingEvent>>)
            /\ wpc' = "dialing"
            /\ dials' = dials + 1
    /\ UNCHANGED <<connected, socket, inbox, remoteUp, wire, dropped>>
    /\ UNCHANGED <<handleVars, flowVars, ncmd, nin, relayVars, auxVars>>

\* Mutant of WorkerDialErr: a failed dial ends the worker thread.
WorkerDialErrExits(err) ==
    /\ wpc = "dialing"
    /\ connected' = FALSE
    /\ DropSocket
    /\ Emit(<<RealtimeEvent("Disconnected", None, Some(err), None, None)>>)
    /\ wpc' = "exited"
    /\ wlast' = [op |-> "dial", out |-> "err"]
    /\ UNCHANGED <<cmd_chan, dials, wire>>
    /\ UNCHANGED <<handleVars, flowVars, ncmd, nin, relayVars, auxVars>>

\* Mutant of WorkerDialErr: the worker dials again by itself.
WorkerDialErrRetries(err) ==
    /\ wpc = "dialing"
    /\ connected' = FALSE
    /\ DropSocket
    /\ Emit(<<RealtimeEvent("Disconnected", None, Some(err), None, None)>>)
    /\ wpc' = "dialing"
    /\ dials' = dials + 1
    /\ wlast' = [op |-> "dial", out |-> "err"]
    /\ UNCHANGED <<cmd_chan, wire>>
    /\ UNCHANGED <<handleVars, flowVars, ncmd, nin, relayVars, auxVars>>

\* Connect arm, Err(err) of the dial
WorkerDialErr(err) ==
    /\ wpc = "dialing"
    /\ connected' = FALSE
    /\ DropSocket
    /\ Emit(<<RealtimeEvent("Disconnected", None, Some(err), None, None)>>)
    /\ wpc' = AfterCommand(connected')
    /\ wlast' = [op |-> "dial", out |-> "err"]
    /\ UNCHANGED <<cmd_chan, dials, wire>>
    /\ UNCHANGED <<handleVars, flowVars, ncmd, nin, relayVars, auxVars>>

\* Connect arm, Ok(ws) of the dial: the socket is kept, the Auth payload is
\* serialized and written, the Connected event follows. enc is the outcome
\* of serde_json::to_string(&auth), wr that of ws.send.
WorkerDialOk(enc, wr) ==
    /\ wpc = "dialing"
    /\ inbox' = <<>>
    /\ wlast' = [op |-> "auth", out |-> IF enc = "err" THEN "encode_err" ELSE wr]
    /\ IF enc = "ok" /\ wr = "ok"
       THEN /\ connected' = TRUE
            /\ socket' = dials
            /\ remoteUp' = TRUE
            /\ wire' = <<AuthPayloadText>>
            /\ Emit(<<RealtimeEvent("Connected", Some(Str("Handshake complete")), None,
                                    None, None)>>)
            /\ wpc' = AfterCommand(connected')
            /\ UNCHANGED dropped
       ELSE IF enc = "ok"
       THEN /\ connected' = FALSE
            /\ socket' = 0
            /\ remoteUp' = FALSE
            /\ dropped' = dropped \cup {dials}
            /\ Emit(<<RealtimeEvent("Disconnected", None, Some(IoErrorText(wr)), None,
                                    None)>>)
            /\ wpc' = "idle"
            /\ wire' = <<>>
       ELSE /\ connected' = TRUE
            /\ socket' = dials
            /\ remoteUp' = TRUE
            /\ Emit(<<RealtimeEvent("Connected", None, Some(EncodeErrorText), None, None),
                      RealtimeEvent("Connected", Some(Str("Handshake complete")), None,
                                    None, None)>>)
            /\ wpc' = AfterCommand(connected')
            /\ wire' = <<>>
            /\ UNCHANGED dropped
    /\ UNCHANGED <<cmd_chan, dials>>
    /\ UNCHANGED <<handleVars, flowVars, ncmd, nin, relayVars, auxVars>>

\* Mutant of WorkerDisconnect: the arm sends no event.
WorkerDisconnectSilent ==
    /\ Received("Disconnect")
    /\ DropSocket
    /\ connected' = FALSE
    /\ wpc' = AfterCommand(connected')
    /\ wlast' = [op |-> "disconnect", out |-> WorkerStatus, at |-> Head(cmd_chan).at]
    /\ UNCHANGED <<dials, wire, evt_chan, elast>>
    /\ UNCHANGED <<handleVars, flowVars, ncmd, nin, relayVars, auxVars>>

\* Mutant of WorkerDisconnect: the socket is closed but not taken.
WorkerDisconnectKeepsSocket ==
    /\ Received("Disconnect")
    /\ dropped' = IF socket = 0 THEN dropped ELSE dropped \cup {socket}
    /\ connected' = FALSE
    /\ Emit(<<RealtimeEvent("Disconnected", Some(Str("Closed socket")), None, None, None)>>)
    /\ wpc' = AfterCommand(connected')
    /\ wlast' = [op |-> "disconnect", out |-> WorkerStatus, at |-> Head(cmd_chan).at]
    /\ UNCHANGED <<socket, inbox, remoteUp, dials, wire>>
    /\ UNCHANGED <<handleVars, flowVars, ncmd, nin, relayVars, auxVars>>

\* Disconnect arm: socket.take(), ws.close(None) with its result ignored
WorkerDisconnect ==
    /\ Received("Disconnect")
    /\ DropSocket
    /\ connected' = FALSE
    /\ Emit(<<RealtimeEvent("Disconnected", Some(Str("Closed socket")), None, None, None)>>)
    /\ wpc' = AfterCommand(connected')
    /\ wlast' = [op |-> "disconnect", out |-> WorkerStatus, at |-> Head(cmd_chan).at]
    /\ UNCHANGED <<dials, wire>>
    /\ UNCHANGED <<handleVars, flowVars, ncmd, nin, relayVars, auxVars>>

\* Mutant of WorkerSend: an encode failure is taken as fatal, like a write
\* failure.
WorkerSendEncodeFatal ==
    /\ Received("SendMessage")
    /\ \E enc \in EncodeOutcomes, wr \in WriteOutcomes :
       LET m == Head(cmd_chan).payload[1]
           out == IF socket = 0 THEN "no_socket"
                  ELSE IF enc = "err" THEN "encode_err" ELSE wr
       IN  /\ wlast' = [op |-> "send", out |-> out]
           /\ IF out = "no_socket"
              THEN UNCHANGED <<connected, socket, inbox, remoteUp, wire, dropped,
                               evt_chan, elast>>
              ELSE IF out = "ok"
              THEN /\ wire' = Append(wire, ClientEncode(m.message, m.attachments))
                   /\ UNCHANGED <<connected, socket, inbox, remoteUp, dropped, evt_chan,
                                  elast>>
              ELSE /\ connected' = FALSE
                   /\ DropSocket
                   /\ Emit(<<RealtimeEvent("Disconnected", None,
                                           Some(IF out = "encode_err" THEN EncodeErrorText
                                                ELSE IoErrorText(out)),
                                           None, None)>>)
                   /\ UNCHANGED wire
    /\ wpc' = AfterCommand(connected')
    /\ UNCHANGED dials
    /\ UNCHANGED <<handleVars, flowVars, ncmd, nin, relayVars, auxVars>>

\* SendMessage arm. enc is the outcome of encode_realtime_message, wr that of
\* ws.send: `if let Err(err) = ws.send(..)` takes every error as fatal.
WorkerSend ==
    /\ Received("SendMessage")
    /\ \E enc \in EncodeOutcomes, wr \in WriteOutcomes :
       LET m == Head(cmd_chan).payload[1]
           out == IF socket = 0 THEN "no_socket"
                  ELSE IF enc = "err" THEN "encode_err" ELSE wr
       IN  /\ wlast' = [op |-> "send", out |-> out]
           /\ IF out = "no_socket"
              THEN UNCHANGED <<connected, socket, inbox, remoteUp, wire, dropped,
                               evt_chan, elast>>
              ELSE IF out = "ok"
              THEN /\ wire' = Append(wire, ClientEncode(m.message, m.attachments))
                   /\ UNCHANGED <<connected, socket, inbox, remoteUp, dropped, evt_chan,
                                  elast>>
              ELSE IF out = "encode_err"
              THEN /\ Emit(<<RealtimeEvent("Connected", None, Some(EncodeErrorText), None,
                                           None)>>)
                   /\ UNCHANGED <<connected, socket, inbox, remoteUp, wire, dropped>>
              ELSE /\ connected' = FALSE
                   /\ DropSocket
                   /\ Emit(<<RealtimeEvent("Disconnected", None, Some(IoErrorText(out)),
                                           None, None)>>)
                   /\ UNCHANGED wire
    /\ wpc' = AfterCommand(connected')
    /\ UNCHANGED dials
    /\ UNCHANGED <<handleVars, flowVars, ncmd, nin, relayVars, auxVars>>

\* recv_timeout returns Err(Timeout): no command within 16 ms
WorkerTimeout ==
    /\ wpc = "idle"
    /\ cmd_chan = <<>>
    /\ connected
    /\ wpc' = AfterCommand(connected)
    /\ wlast' = [op |-> "timeout", out |-> "none"]
    /\ UNCHANGED <<connected, socket, inbox, remoteUp, dials, wire, dropped, elast,
                   cmd_chan, evt_chan>>
    /\ UNCHANGED <<handleVars, flowVars, ncmd, nin, relayVars, auxVars>>

\* Mutant of InboundEvent: a frame that fails to decode is reported as the
\* end of the connection.
InboundEventErrDisconnects(text) ==
    LET d == ClientDecode(text)
    IN  CASE d.kind = "Message" ->
                RealtimeEvent("Connected", Some(Str("Message received")), None,
                              Some(d.inbound), None)
          [] d.kind = "Presence" ->
                RealtimeEvent("Connected",
                              Some(<<"Presence: ", d.user, " is ", d.status>>), None, None,
                              Some([user |-> d.user, status |-> d.status]))
          [] d.kind = "Signal" ->
                RealtimeEvent("Connected", Some(d.signal), None, None, None)
          [] OTHER ->
                RealtimeEvent("Disconnected", None, Some(d.err), None, None)

\* Mutant of InboundEvent: the event of a decoded message also carries an
\* error text.
InboundEventMessageWithError(text) ==
    LET d == ClientDecode(text)
    IN  CASE d.kind = "Message" ->
                RealtimeEvent("Connected", Some(Str("Message received")),
                              Some(Str("unexpected payload")), Some(d.inbound), None)
          [] d.kind = "Presence" ->
                RealtimeEvent("Connected",
                              Some(<<"Presence: ", d.user, " is ", d.status>>), None, None,
                              Some([user |-> d.user, status |-> d.status]))
          [] d.kind = "Signal" ->
                RealtimeEvent("Connected", Some(d.signal), None, None, None)
          [] OTHER ->
                RealtimeEvent("Connected", None, Some(d.err), None, None)

\* The event of the decode dispatch for a text frame read.
InboundEvent(text) ==
    LET d == ClientDecode(text)
    IN  CASE d.kind = "Message" ->
                RealtimeEvent("Connected", Some(Str("Message received")), None,
                              Some(d.inbound), None)
          [] d.kind = "Presence" ->
                RealtimeEvent("Connected",
                              Some(<<"Presence: ", d.user, " is ", d.status>>), None, None,
                              Some([user |-> d.user, status |-> d.status]))
          [] d.kind = "Signal" ->
                RealtimeEvent("Connected", Some(d.signal), None, None, None)
          [] OTHER ->
                RealtimeEvent("Connected", None, Some(d.err), None, None)

\* Outcome of ws.read(): a text frame when one has arrived; else would-block
\* while the remote end is there, an error once it has gone away.
ReadOutcome ==
    IF inbox # <<>> THEN "text" ELSE IF remoteUp THEN "would_block" ELSE "fatal"

\* Mutant of IoBlocked: every read error is taken as would-block.
IoBlockedAlways(out) == TRUE

\* io_blocked: matches!(err, Io(ref io_err) if io_err.kind() == WouldBlock)
IoBlocked(out) == out = "would_block"

\* `if connected { if let Some(ws) = socket.as_mut() { match ws.read() ...`
WorkerRead ==
    /\ wpc = "read"
    /\ LET out == IF socket = 0 THEN "no_socket" ELSE ReadOutcome
       IN  /\ wlast' = [op |-> "read", out |-> out]
           /\ rlog' = IF out = "text" THEN Append(rlog, Head(inbox)) ELSE rlog
           /\ IF out = "no_socket"
              THEN UNCHANGED <<connected, socket, inbox, remoteUp, dropped, evt_chan,
                               elast>>
              ELSE IF out = "text"
              THEN /\ Emit(<<InboundEvent(Head(inbox))>>)
                   /\ inbox' = Tail(inbox)
                   /\ UNCHANGED <<connected, socket, remoteUp, dropped>>
              ELSE IF IoBlocked(out)
              THEN UNCHANGED <<connected, socket, inbox, remoteUp, dropped, evt_chan,
                               elast>>
              ELSE /\ connected' = FALSE
                   /\ DropSocket
                   /\ Emit(<<RealtimeEvent("Disconnected", None, Some(ReadErrorText),
                                           None, None)>>)
    /\ wpc' = "idle"
    /\ UNCHANGED <<cmd_chan, dials, wire>>
    /\ UNCHANGED <<handleVars, taken, takenp, polled, ncmd, nin, relayVars, auxVars>>

\* ------------------------------------------- client: the remote end
RemoteSend(text) ==
    /\ socket # 0
    /\ remoteUp
    /\ nin < MaxInbound
    /\ nin' = nin + 1
    /\ inbox' = Append(inbox, text)
    /\ UNCHANGED <<remoteUp, handleVars, workerVars, histVars, flowVars, cmd_chan, evt_chan, ncmd,
                   relayVars, auxVars>>

RemoteClose ==
    /\ socket # 0
    /\ remoteUp
    /\ remoteUp' = FALSE
    /\ UNCHANGED <<inbox, nin, handleVars, workerVars, histVars, flowVars, cmd_chan, evt_chan, ncmd,
                   relayVars, auxVars>>

\* ======================================================= specifications
Next ==
    \/ OwnerConnect
    \/ OwnerDisconnect
    \/ \E m \in Messages : OwnerSend(m)
    \/ OwnerPoll
    \/ OwnerTakeIncoming
    \/ OwnerTakePresence
    \/ WorkerConnect
    \/ \E err \in DialErrors : WorkerDialErr(err)
    \/ \E enc \in EncodeOutcomes, wr \in {"ok", "would_block", "fatal"} : WorkerDialOk(enc, wr)
    \/ WorkerDisconnect
    \/ WorkerSend
    \/ WorkerTimeout
    \/ WorkerRead
    \/ \E text \in RemoteFrames : RemoteSend(text)
    \/ RemoteClose

\* One Session Handle, its worker, and the remote end of the worker's socket.
Spec == Init /\ [][Next]_vars

\* The steps of the worker thread: its loop runs for as long as the process.
WorkerNext ==
    \/ WorkerConnect
    \/ \E err \in DialErrors : WorkerDialErr(err)
    \/ \E enc \in EncodeOutcomes, wr \in {"ok", "would_block", "fatal"} : WorkerDialOk(enc, wr)
    \/ WorkerDisconnect
    \/ WorkerSend
    \/ WorkerTimeout
    \/ WorkerRead

\* The client session with a worker thread that is scheduled again and again
\* and a dial that returns.
FairSpec == Spec /\ WF_vars(WorkerNext)

\* The relay, and peers that send frames and go away.
RelaySpec == Init /\ [][RelayNext]_vars

\* The Registry on its own.
RegistrySpec == Init /\ [][RegistryNext]_vars

\* The Registry with its lock, a pass taking one step per list entry.
LockSpec == Init /\ [][LockNext]_vars

\* The remote end sends a burst of frames; the owner connects, polls and
\* takes what has come in.
MaxBurst == 2

BurstFrames ==
    { MsgText("mara", Str("one"), "09:15", 1, Null, None),
      MsgText("lee", Str("two"), "09:16", 2, Null, Some(<<"a.png">>)),
      PresenceText("lee", "away") }

RemoteBurst(text) ==
    /\ socket # 0
    /\ remoteUp
    /\ nin < MaxBurst
    /\ nin' = nin + 1
    /\ inbox' = Append(inbox, text)
    /\ UNCHANGED <<remoteUp, handleVars, workerVars, histVars, flowVars, cmd_chan,
                   evt_chan, ncmd, relayVars, auxVars>>

PollNext ==
    \/ OwnerConnect
    \/ OwnerPoll
    \/ OwnerTakeIncoming
    \/ OwnerTakePresence
    \/ WorkerConnect
    \/ \E enc \in EncodeOutcomes, wr \in {"ok", "would_block", "fatal"} : WorkerDialOk(enc, wr)
    \/ WorkerTimeout
    \/ WorkerRead
    \/ \E text \in BurstFrames : RemoteBurst(text)

PollSpec == Init /\ [][PollNext]_vars

\* ------------------------------------------------- the Wire Codec alone
\* encode_realtime_message and decode_realtime_inbound applied to inputs
\* drawn from bounded sets: a ChatMessage with a list of Attachments is
\* encoded and the text decoded; a plain text frame is decoded.
MaxAttach == 2     \* attachments of a message
MaxFields == 5     \* tab-separated fields of a plain frame

SeqsUpTo(S, n) == UNION { [1..k -> S] : k \in 0..n }

\* Message values; id is the local row id, which the wire does not carry.
CodecMessages ==
    [id : {0, 7}, author : {"you", "mara"}, body : {Str("hi"), <<"a", "b">>},
     sent_at : {"09:15"}, channel_id : {1, 2}]

\* Attachment lists.
CodecAttachments == SeqsUpTo({"a.png", "b.pdf"}, MaxAttach)

\* Plain frames, each given by the fields its tabs separate.
CodecFrames == { PlainText(f) : f \in SeqsUpTo({"mara", "1", "hi"}, MaxFields) \ {<<>>} }

\* JSON objects that are no RealtimePayload, written without and with tabs
\* between their tokens.
CodecObjects ==
    { ObjectText("note", <<"{\"type\":\"note\",\"n\":1}">>),
      ObjectText("Message", <<"{\"type\":\"Message\",\"author\":\"mara\"}">>),
      ObjectText(Absent, <<"{\"n\":1}">>),
      ObjectText("note", <<"{\"n\":", "1", ",\"type\":\"note\"", "}">>),
      ObjectText(Absent, <<"{\"n\":", "x", "}">>) }

\* Structured frames of the variants that are no chat message.
CodecPayloads ==
    { AuthText("local-dev", "mara"),
      AckText("message", StoredDetail("mara", 1)),
      PresenceText("mara", "online") }

CodecInit ==
    /\ RelayInit
    /\ ClientInit
    /\ lock = 0
    /\ pass = [t \in Conn |-> IdlePass]
    /\ net = NoNet
    /\ peer = NoPeer
    /\ codec \in [pc : {"message"}, message : CodecMessages, attachments : CodecAttachments]
                   \cup [pc : {"frame"}, text : CodecFrames \cup CodecObjects \cup CodecPayloads]

\* encode_realtime_message(&message, attachments)
CodecEncode ==
    /\ codec.pc = "message"
    /\ codec' = [pc |-> "encoded", message |-> codec.message,
                 attachments |-> codec.attachments,
                 text |-> ClientEncode(codec.message, codec.attachments)]
    /\ UNCHANGED <<relayVars, clientVars, lock, pass, e2eVars>>

\* decode_realtime_inbound(&text), of an encoded message or of a frame given
CodecDecode ==
    /\ codec.pc \in {"encoded", "frame"}
    /\ codec' = IF codec.pc = "encoded"
                THEN [pc |-> "decoded", from |-> "message", message |-> codec.message,
                      attachments |-> codec.attachments, text |-> codec.text,
                      result |-> ClientDecode(codec.text)]
                ELSE [pc |-> "decoded",
                      from |-> IF codec.text.form = "json" THEN "payload" ELSE "frame",
                      text |-> codec.text,
                      result |-> ClientDecode(codec.text)]
    /\ UNCHANGED <<relayVars, clientVars, lock, pass, e2eVars>>

CodecNext == CodecEncode \/ CodecDecode

CodecSpec == CodecInit /\ [][CodecNext]_vars

\* ================================================================ claims
Last(seq) == seq[Len(seq)]
Range(seq) == { seq[i] : i \in DOMAIN seq }

IsJson(text, type) == text.form = "json" /\ text.type = type

\* The channels a broadcast pass delivers to: registered, receiver alive.
LiveSubscribers == { c \in Range(subscribers) : rxAlive[c] }

\* What one broadcast pass of `text` does to the channels and the Registry.
PassDelivers(text) ==
    /\ \A c \in Conn :
          queue'[c] = IF c \in LiveSubscribers THEN Append(queue[c], text) ELSE queue[c]
    /\ subscribers' = SelectSeq(subscribers, LAMBDA c : rxAlive[c])

\* C1: one broadcast(text) call appends exactly one copy of text to the queue
\* of every Subscriber whose receiving side is alive, delivers nothing to a
\* Subscriber whose receiving side is gone, and leaves in the Registry exactly
\* the live Subscribers, in their original relative order.
C1_BroadcastPrunes ==
    [][Len(blog') = Len(blog) + 1 => PassDelivers(Last(blog'))]_vars

\* C1's case: 3 registered, one torn down, one pass: 2 remain, and exactly
\* those 2 got the text.
C1_Witness ==
    /\ nconn = 3
    /\ Len(blog) = 1
    /\ Len(subscribers) = 2
    /\ \A c \in Range(subscribers) : rxAlive[c] /\ enq[c] = blog
    /\ \E d \in Conn : ~rxAlive[d] /\ d \notin Range(subscribers) /\ enq[d] = <<>>

\* The step of handler c that follows its log `old`, adding the entry `new`.
HandlerStep(c) == hlog'[c] # hlog[c]

\* C2: a handler that read a Message frame of author a and channel c first
\* writes Ack{message, "stored for a in channel c"} on the originating socket
\* only, then broadcasts the frame's original text through the Registry; what
\* a handler drains to its peer is the text as queued.
C2_MessageReaction ==
    [][\A c \in Conn :
          /\ HandlerStep(c) =>
                LET old == hlog[c]
                    new == Last(hlog'[c])
                    MsgAck(f) == AckText("message", <<"stored for ", f.author,
                                                    " in channel ", I64Str(f.channel_id)>>)
                IN  /\ (old # <<>> /\ Last(old).op = "read"
                           /\ IsJson(Last(old).text, "message")) =>
                          /\ new = [op |-> "ack", text |-> MsgAck(Last(old).text)]
                          /\ sockOut' = [sockOut EXCEPT ![c] =
                                            IF peerOpen[c] THEN Append(@, new.text) ELSE @]
                          /\ queue' = queue
                          /\ blog' = blog
                    /\ (Len(old) >= 2 /\ Last(old).op = "ack"
                           /\ IsJson(old[Len(old) - 1].text, "message")) =>
                          /\ new = [op |-> "bcast", text |-> old[Len(old) - 1].text]
                          /\ blog' = Append(blog, new.text)
                          /\ PassDelivers(new.text)
                          /\ sockOut' = sockOut
                    /\ (new.op = "bcast" /\ IsJson(new.text, "message")) =>
                          /\ Len(old) >= 2
                          /\ old[Len(old) - 1] = [op |-> "read", text |-> new.text]
                          /\ Last(old) = [op |-> "ack", text |-> MsgAck(new.text)]
          /\ (hpc[c] = "drain" /\ sockOut'[c] # sockOut[c]) =>
                sockOut'[c] = Append(sockOut[c], Head(queue[c]))
    ]_vars

\* C2's case: a Message frame with an attachment was acknowledged to its
\* sender, broadcast, and written to another peer as it was received.
C2_Witness ==
    \E c, d \in Conn :
       /\ c # d
       /\ Len(hlog[c]) >= 3
       /\ IsJson(hlog[c][1].text, "message")
       /\ hlog[c][1].text.attachments # None
       /\ hlog[c][2].op = "ack"
       /\ hlog[c][3] = [op |-> "bcast", text |-> hlog[c][1].text]
       /\ hlog[c][2].text \in Range(sockOut[c])
       /\ hlog[c][1].text \in Range(sockOut[d])

\* C3: a handler that read Auth{token, user: u} first writes
\* Ack{auth, "welcome u"} on the sender's socket only, then broadcasts
\* Presence{u, "online"} to every registered Subscriber, the sender's included.
C3_PresenceFlow ==
    [][\A c \in Conn :
          HandlerStep(c) =>
             LET old == hlog[c]
                 new == Last(hlog'[c])
                 AuthAck(f) == AckText("auth", <<"welcome ", f.user>>)
                 Online(f) == PresenceText(f.user, "online")
             IN  /\ (old # <<>> /\ Last(old).op = "read" /\ IsJson(Last(old).text, "auth")) =>
                       /\ new = [op |-> "ack", text |-> AuthAck(Last(old).text)]
                       /\ sockOut' = [sockOut EXCEPT ![c] =
                                         IF peerOpen[c] THEN Append(@, new.text) ELSE @]
                       /\ queue' = queue
                       /\ blog' = blog
                 /\ (Len(old) >= 2 /\ Last(old).op = "ack"
                        /\ IsJson(old[Len(old) - 1].text, "auth")) =>
                       /\ new = [op |-> "bcast", text |-> Online(old[Len(old) - 1].text)]
                       /\ blog' = Append(blog, new.text)
                       /\ PassDelivers(new.text)
                       /\ c \in LiveSubscribers
                       /\ sockOut' = sockOut
                 /\ (new.op = "bcast" /\ IsJson(new.text, "presence")) =>
                       /\ Len(old) >= 2
                       /\ IsJson(old[Len(old) - 1].text, "auth")
                       /\ old[Len(old) - 1].op = "read"
                       /\ Last(old) = [op |-> "ack", text |-> AuthAck(old[Len(old) - 1].text)]
    ]_vars

\* C3's case: an Auth was acknowledged to its sender, and the Presence came
\* to the sender's own socket, after the Ack, and to another peer's.
C3_Witness ==
    \E c, d \in Conn :
       /\ c # d
       /\ Len(hlog[c]) >= 3
       /\ IsJson(hlog[c][1].text, "auth")
       /\ hlog[c][3].op = "bcast"
       /\ Len(sockOut[c]) >= 3
       /\ sockOut[c][2] = hlog[c][2].text
       /\ sockOut[c][3] = PresenceText(hlog[c][1].text.user, "online")
       /\ PresenceText(hlog[c][1].text.user, "online") \in Range(sockOut[d])

\* ---------------------------------------------------------------- C4..C10
\* The worker takes the command at the head of the channel.
Consumes(kind) ==
    /\ cmd_chan # <<>>
    /\ Head(cmd_chan).kind = kind
    /\ cmd_chan' = Tail(cmd_chan)

\* A step of the worker: it takes a command or moves on in its loop.
WorkerStepped == wpc' # wpc \/ Len(cmd_chan') < Len(cmd_chan)

\* The worker emits exactly this one event.
EmitsOnly(event) == evt_chan' = Append(evt_chan, event)

\* A Disconnected event that carries an error text and nothing else.
IsDisconnectedError(event) ==
    /\ event.status = "Disconnected"
    /\ event.error # None
    /\ event.message = None
    /\ event.inbound = None
    /\ event.presence = None

\* The worker is left Disconnected, without a socket.
LeftDisconnected == socket' = 0 /\ ~connected' /\ wpc' = "idle"

\* C4: a Connect issued while the worker was Connecting starts no dial and
\* emits nothing when the worker takes it, whatever the dial in progress
\* came to.
C4_ConnectWhileConnecting ==
    [][(Consumes("Connect") /\ Head(cmd_chan).at = "Connecting")
         => (dials' = dials /\ evt_chan' = evt_chan /\ wpc' # "dialing")]_vars

\* C5: a Connect taken while Connected starts no dial, emits no event and
\* leaves the socket, the connected flag and the owner's status as they are.
C5_ConnectWhileConnected ==
    [][(Consumes("Connect") /\ connected)
         => /\ dials' = dials
            /\ wpc' # "dialing"
            /\ evt_chan' = evt_chan
            /\ socket' = socket
            /\ connected' = connected
            /\ status' = status
            /\ UNCHANGED <<wire, dropped, inbox, remoteUp>>]_vars

C5_Witness ==
    /\ wlast = [op |-> "connect", out |-> "Connected"]
    /\ connected
    /\ socket # 0
    /\ dials = 1

\* C6: a Connect taken in Disconnected emits Connecting and dials; a dial
\* that fails emits exactly one Disconnected event with the reason and
\* leaves no socket; a dial only ever starts in the step that takes a
\* Connect.
C6_DialFailure ==
    [][/\ (Consumes("Connect") /\ ~connected)
            => (EmitsOnly(ConnectingEvent) /\ wpc' = "dialing" /\ dials' = dials + 1)
       /\ (WorkerStepped /\ wpc = "dialing" /\ wlast'.op = "dial")
            => /\ \E err \in DialErrors :
                    EmitsOnly(RealtimeEvent("Disconnected", None, Some(err), None, None))
               /\ elast = Some(ConnectingEvent)
               /\ LeftDisconnected
               /\ dials' = dials
       /\ (dials' # dials \/ (wpc' = "dialing" /\ wpc # "dialing"))
            => Consumes("Connect")]_vars

C6_Witness ==
    /\ wlast = [op |-> "dial", out |-> "err"]
    /\ socket = 0
    /\ ~connected
    /\ dials = 1
    /\ elast # None
    /\ IsDisconnectedError(elast[1])
    /\ elast[1].error[1] \in DialErrors

\* C7: after the step that follows a successful dial, if the Auth payload
\* could not be serialized or written the worker holds no socket, is not
\* connected, and the last event it emitted is a Disconnected event with
\* the error.
C7_AuthFailure ==
    (wlast.op = "auth" /\ wlast.out # "ok")
        => /\ socket = 0
           /\ ~connected
           /\ elast # None
           /\ IsDisconnectedError(elast[1])

\* C8: a socket the worker holds and reads or writes has had the Auth
\* payload written on it as its first frame.
C8_AuthFirst ==
    (socket # 0 /\ wpc # "dialing") => (wire # <<>> /\ wire[1] = AuthPayloadText)

\* C9: a Disconnect taken while Connected leaves the worker Disconnected with
\* the socket dropped and emits one Disconnected event without an error;
\* the socket the worker holds is never a dropped one, and every read and
\* write is on the socket it holds.
C9_Disconnect ==
    [][/\ (Consumes("Disconnect") /\ connected)
            => /\ socket' = 0
               /\ ~connected'
               /\ wpc' = "idle"
               /\ dropped' = dropped \cup {socket}
               /\ EmitsOnly(RealtimeEvent("Disconnected", Some(Str("Closed socket")),
                                          None, None, None))
       /\ socket' \notin dropped'
       /\ (wire' # wire /\ wire' # <<>>) => (socket' # 0 /\ socket' \notin dropped)
       /\ (WorkerStepped /\ wlast'.op = "read" /\ wlast'.out # "no_socket")
            => (socket # 0 /\ socket \notin dropped)]_vars

C9_Witness ==
    /\ wlast.op = "disconnect" /\ wlast.out = "Connected"
    /\ socket = 0
    /\ ~connected
    /\ dropped = {1}
    /\ elast = Some(RealtimeEvent("Disconnected", Some(Str("Closed socket")), None, None,
                                  None))

\* C10: a read or a write on the socket of a Connected worker that fails
\* with an error other than would-block leaves the worker Disconnected
\* without the socket, emits exactly one Disconnected event with the error
\* text, and starts no dial.
C10_FatalIo ==
    [][(/\ WorkerStepped
        /\ connected
        /\ wlast'.op \in {"read", "send"}
        /\ wlast'.out = "fatal")
         => /\ LeftDisconnected
            /\ dropped' = dropped \cup {socket}
            /\ \E text \in {ReadErrorText, IoErrorText("fatal")} :
                 EmitsOnly(RealtimeEvent("Disconnected", None, Some(text), None, None))
            /\ dials' = dials]_vars

C10_Witness ==
    /\ wlast = [op |-> "read", out |-> "fatal"]
    /\ socket = 0
    /\ ~connected
    /\ dropped = {1}
    /\ dials = 1
    /\ elast = Some(RealtimeEvent("Disconnected", None, Some(ReadErrorText), None, None))

\* --------------------------------------------------------------- C11..C20
\* C11: a read or a write of the worker that reports would-block leaves the
\* socket and the connected flag as they are and emits no event.
C11_WouldBlockNotFatal ==
    [][(/\ WorkerStepped
        /\ connected
        /\ wlast'.op \in {"read", "send"}
        /\ wlast'.out = "would_block")
         => /\ socket' = socket
            /\ connected'
            /\ evt_chan' = evt_chan
            /\ dropped' = dropped]_vars

\* C12: a SendMessage taken while Connected, by outcome. Encode failure: one
\* event with status Connected and the error, socket and flag kept, nothing
\* written, the command gone from the channel. Write failure: the socket is
\* dropped and one Disconnected event carries the error. Success: the frame
\* is written, no event, still Connected.
C12_SendOutcomes ==
    [][(WorkerStepped /\ connected /\ wlast'.op = "send")
         => /\ Consumes("SendMessage")
            /\ wlast'.out = "encode_err"
                 => /\ EmitsOnly(RealtimeEvent("Connected", None, Some(EncodeErrorText),
                                               None, None))
                    /\ socket' = socket
                    /\ connected'
                    /\ UNCHANGED <<wire, dropped, dials>>
            /\ wlast'.out = "fatal"
                 => /\ LeftDisconnected
                    /\ dropped' = dropped \cup {socket}
                    /\ EmitsOnly(RealtimeEvent("Disconnected", None,
                                               Some(IoErrorText("fatal")), None, None))
            /\ wlast'.out = "ok"
                 => /\ evt_chan' = evt_chan
                    /\ socket' = socket
                    /\ connected'
                    /\ Len(wire') = Len(wire) + 1
                    /\ IsJson(Last(wire'), "message")]_vars

C12_Witness ==
    /\ wlast = [op |-> "send", out |-> "encode_err"]
    /\ connected
    /\ socket = 1
    /\ wire = <<AuthPayloadText>>
    /\ elast = Some(RealtimeEvent("Connected", None, Some(EncodeErrorText), None, None))

\* The worker reads a text frame that neither decode accepts.
ReadsMalformed ==
    /\ WorkerStepped
    /\ wlast'.op = "read"
    /\ wlast'.out = "text"
    /\ ClientDecode(Head(inbox)).kind = "Err"

\* C13: reading a text frame that neither decode accepts takes the frame
\* off the socket, emits exactly one event with status Connected, the
\* error and no payload, keeps the socket and the connected flag, and
\* leaves the worker at the top of its loop with its commands untouched.
C13_MalformedFrame ==
    [][ReadsMalformed
         => /\ EmitsOnly(RealtimeEvent("Connected", None,
                                       Some(ClientDecode(Head(inbox)).err), None, None))
            /\ inbox' = Tail(inbox)
            /\ socket' = socket
            /\ socket # 0
            /\ connected'
            /\ wpc' = "idle"
            /\ UNCHANGED <<cmd_chan, dropped, dials, wire>>]_vars

\* A command is processed on the same socket after a malformed frame was
\* read and its error event polled.
C13_Witness ==
    /\ last_error = Some(ClientDecode(PlainText(<<"not json, not legacy">>)).err)
    /\ status = "Connected"
    /\ wlast = [op |-> "send", out |-> "ok"]
    /\ socket = 1
    /\ connected
    /\ Len(wire) = 2

\* An event whose fields do not contradict each other.
NonContradictory(event) ==
    /\ event.status \in {"Disconnected", "Connecting"}
         => (event.inbound = None /\ event.presence = None)
    /\ ~(event.inbound # None /\ event.presence # None)
    /\ (event.inbound # None \/ event.presence # None)
         => (event.status = "Connected" /\ event.error = None)

\* C14: every event the worker has emitted and the owner has not polled
\* yet, and the last event emitted, is non-contradictory.
C14_EventsConsistent ==
    /\ \A i \in DOMAIN evt_chan : NonContradictory(evt_chan[i])
    /\ elast # None => NonContradictory(elast[1])

C14_Witness ==
    /\ Len(evt_chan) >= 3
    /\ \E i \in DOMAIN evt_chan : evt_chan[i].status = "Connecting"
    /\ Last(evt_chan).inbound # None
    /\ Last(evt_chan).status = "Connected"

\* f applied to each element of seq, in order.
MapSeq(seq, f(_)) == [i \in 1..Len(seq) |-> f(seq[i])]

HasInbound(event) == event.inbound # None
HasPresence(event) == event.presence # None
InboundIn(event) == event.inbound[1]
PresenceIn(event) == event.presence[1]

\* The inbound messages, and the presence updates, of a sequence of events.
InboundOf(events) == MapSeq(SelectSeq(events, HasInbound), InboundIn)
PresenceOf(events) == MapSeq(SelectSeq(events, HasPresence), PresenceIn)

\* The events of the text frames the worker has read, in the order read.
ReadEvents == MapSeq(rlog, InboundEvent)

\* C15: what take_incoming has returned, then what the handle holds, then
\* what is in the events not yet polled, is the sequence of the messages
\* of the frames read, in the order read, each once; the same for presence
\* updates. A poll takes every waiting event, leaves the fields of the
\* last one in the handle, and appends the payloads in emission order; the
\* worker only ever appends to the waiting events.
C15_EventFlow ==
    [][/\ taken' \o incoming' \o InboundOf(evt_chan') = InboundOf(ReadEvents')
       /\ takenp' \o incoming_presence' \o PresenceOf(evt_chan') = PresenceOf(ReadEvents')
       /\ evt_chan' # evt_chan
            => \/ /\ Len(evt_chan') > Len(evt_chan)
                  /\ SubSeq(evt_chan', 1, Len(evt_chan)) = evt_chan
               \/ /\ evt_chan' = <<>>
                  /\ status' = Last(evt_chan).status
                  /\ last_message' = Last(evt_chan).message
                  /\ last_error' = Last(evt_chan).error
                  /\ incoming' = incoming \o InboundOf(evt_chan)
                  /\ incoming_presence' = incoming_presence \o PresenceOf(evt_chan)]_vars

\* Two different messages were read, polled and handed out.
C15_Witness ==
    /\ Len(taken) = 2
    /\ taken[1] # taken[2]
    /\ Len(rlog) = 2
    /\ incoming = <<>>
    /\ evt_chan = <<>>

\* The arm the worker runs for a command of this kind.
ArmOf(kind) ==
    CASE kind = "Connect" -> "connect"
      [] kind = "Disconnect" -> "disconnect"
      [] OTHER -> "send"

\* C16: at most one worker is spawned for the handle, and it is there once
\* cmd_tx is set. The command channel only changes by the owner putting a
\* command at its back or by the worker taking the one at its front, and
\* the worker then runs the arm of the command it took.
C16_OneWorkerFifo ==
    [][/\ workers' <= 1
       /\ cmd_tx' <=> (workers' = 1)
       /\ cmd_chan' # cmd_chan
            => \/ /\ cmd_tx'
                  /\ Len(cmd_chan') = Len(cmd_chan) + 1
                  /\ SubSeq(cmd_chan', 1, Len(cmd_chan)) = cmd_chan
                  /\ UNCHANGED <<workerVars, wlast>>
               \/ /\ cmd_chan # <<>>
                  /\ cmd_chan' = Tail(cmd_chan)
                  /\ wpc = "idle"
                  /\ wlast'.op = ArmOf(Head(cmd_chan).kind)]_vars

\* connect was called twice; both commands were taken, in order, by the one
\* worker spawned.
C16_Witness ==
    /\ workers = 1
    /\ cmd_tx
    /\ ncmd = 2
    /\ cmd_chan = <<>>
    /\ wlast = [op |-> "connect", out |-> "Connected"]
    /\ dials = 1

\* C17: the step in which a handler's loop ends is a socket read that
\* returns an error other than would-block.
C17_ExitOnFatalReadOnly ==
    [][\A c \in Conn :
         (hpc[c] # "exited" /\ hpc'[c] = "exited")
            => (hpc[c] = "read" /\ sockIn[c] = <<>> /\ ~peerOpen[c])]_vars

\* The text frame does not decode as a RealtimePayload of the relay.
Undecodable(text) == text.form # "json"

\* C18: a handler that read a text frame failing the structured decode
\* writes no Ack: its next step is the broadcast of the raw text, unchanged,
\* to every registered Subscriber, and that step writes on no socket.
C18_UndecodableRelayed ==
    [][\A c \in Conn :
          /\ (hlog'[c] # <<>> /\ Last(hlog'[c]).op = "read"
                 /\ Undecodable(Last(hlog'[c]).text))
                => hpc'[c] = "bcast"
          /\ (HandlerStep(c) /\ hlog[c] # <<>> /\ Last(hlog[c]).op = "read"
                 /\ Undecodable(Last(hlog[c]).text))
                => /\ Last(hlog'[c]) = [op |-> "bcast", text |-> Last(hlog[c]).text]
                   /\ blog' = Append(blog, Last(hlog[c]).text)
                   /\ PassDelivers(Last(hlog[c]).text)
                   /\ sockOut' = sockOut]_vars

\* An undecodable text was broadcast as read, came to another peer's
\* socket, and its sender got no Ack.
C18_Witness ==
    \E c, d \in Conn :
       /\ c # d
       /\ Len(hlog[c]) = 2
       /\ Undecodable(hlog[c][1].text)
       /\ hlog[c][2] = [op |-> "bcast", text |-> hlog[c][1].text]
       /\ hlog[c][1].text \in Range(sockOut[d])
       /\ \A i \in DOMAIN sockOut[c] : ~IsJson(sockOut[c][i], "ack")

\* The text frame decodes as an Ack or a Presence.
Informational(text) == IsJson(text, "ack") \/ IsJson(text, "presence")

\* C19: the step in which a handler reads an Ack or a Presence frame writes
\* on no socket, queues nothing, broadcasts nothing and leaves the Registry
\* as it is, and takes the handler on to its drain loop or its next read:
\* the handler's next logged step is another read.
C19_NoReaction ==
    [][\A c \in Conn :
          /\ (HandlerStep(c) /\ Last(hlog'[c]).op = "read"
                 /\ Informational(Last(hlog'[c]).text))
                => /\ hpc'[c] \in {"drain", "read"}
                   /\ UNCHANGED <<sockOut, queue, enq, blog, subscribers, rxAlive>>
          /\ (HandlerStep(c) /\ hlog[c] # <<>> /\ Last(hlog[c]).op = "read"
                 /\ Informational(Last(hlog[c]).text))
                => Last(hlog'[c]).op = "read"]_vars

\* A handler read a Presence and then an Ack; nothing was broadcast and its
\* peer was sent the welcome only.
C19_Witness ==
    \E c \in Conn :
       /\ Len(hlog[c]) = 2
       /\ IsJson(hlog[c][1].text, "presence")
       /\ IsJson(hlog[c][2].text, "ack")
       /\ blog = <<>>
       /\ sockOut[c] = <<WelcomeText>>
       /\ hpc[c] = "read"

\* C20: an accept registers exactly one new Subscriber and writes nothing;
\* the step that starts a connection's handler finds its Subscriber
\* registered and writes the welcome on that connection's socket only,
\* queueing and broadcasting nothing; the first frame on every socket is
\* the welcome, and the welcome is on no Subscriber's queue.
C20_AcceptWelcome ==
    [][/\ nconn' # nconn
            => /\ nconn' = nconn + 1
               /\ subscribers' = Append(subscribers, nconn')
               /\ hpc'[nconn'] = "none"
               /\ UNCHANGED <<sockOut, queue, enq, blog>>
       /\ \A c \in Conn :
            /\ (hpc[c] = "none" /\ hpc'[c] # "none")
                 => /\ hpc'[c] = "read"
                    /\ c \in Range(subscribers)
                    /\ rxAlive[c]
                    /\ sockOut[c] = <<>>
                    /\ sockOut' = [sockOut EXCEPT ![c] =
                                      IF peerOpen[c] THEN <<WelcomeText>> ELSE <<>>]
                    /\ UNCHANGED <<queue, enq, blog, subscribers>>
            /\ sockOut'[c] # <<>> => sockOut'[c][1] = WelcomeText
            /\ WelcomeText \notin Range(enq'[c])]_vars

\* A second peer was sent the welcome first, and after it a text that was
\* broadcast; the first peer's socket holds one welcome only.
C20_Witness ==
    /\ nconn = 2
    /\ Len(sockOut[2]) = 2
    /\ sockOut[2][1] = WelcomeText
    /\ sockOut[2][2] \in Range(enq[2])
    /\ sockOut[1] # <<>>
    /\ \A i \in DOMAIN sockOut[1] : i > 1 => sockOut[1][i] # WelcomeText

\* --------------------------------------------------------------- C21..C30
\* The place of a text among the passes, first pass first; 0 if none.
PassOf(text) ==
    IF \E n \in DOMAIN blog : blog[n] = text
    THEN CHOOSE n \in DOMAIN blog : blog[n] = text
    ELSE 0

\* The texts of seq are texts of passes, in the order of the passes, none
\* twice.
InPassOrder(seq) ==
    /\ \A i \in DOMAIN seq : PassOf(seq[i]) > 0
    /\ \A i, j \in DOMAIN seq : i < j => PassOf(seq[i]) < PassOf(seq[j])

Scanning == { t \in Conn : pass[t].pc = "scan" }

\* C21: passes and registrations exclude each other. A pass begins, and an
\* entry is added to the Registry, only while no pass is under way; every
\* Subscriber is queued the texts in the order of the passes, so any two
\* Subscribers that get two texts get them in the same order; and when a
\* pass ends every entry left in the Registry has been queued its text.
C21_PassesExclusive ==
    [][/\ Cardinality(Scanning') <= 1
       /\ Len(subscribers') > Len(subscribers) => Scanning = {}
       /\ \A c \in Conn : InPassOrder(enq'[c])
       /\ \A t \in Conn :
            (pass[t].pc = "scan" /\ pass'[t].pc = "idle")
               => \A i \in DOMAIN subscribers' :
                     pass[t].text \in Range(enq'[subscribers'[i]])]_vars

\* Two passes by different threads came to two Subscribers in the same
\* order, and a third Subscriber, registered between them, got the second
\* only.
C21_Witness ==
    /\ Len(blog) = 2
    /\ enq[1] = blog
    /\ enq[2] = blog
    /\ enq[3] = <<blog[2]>>
    /\ Scanning = {}

\* C22: the lock is held by a thread inside a pass only, and a step that
\* writes on connection c's socket (the welcome by the accept loop, the
\* drain by c's handler) is taken by a thread that is not inside a pass and
\* does not hold the lock.
C22_NoSocketIoUnderLock ==
    [][/\ lock' # 0 => pass'[lock'].pc = "scan"
       /\ \A t \in Conn : pass'[t].pc = "scan" => lock' = t
       /\ \A c \in Conn :
            sockOut'[c] # sockOut[c]
               => /\ lock # c
                  /\ pass[c].pc = "idle"
                  /\ UNCHANGED <<lock, pass, subscribers>>]_vars

\* Handler 1 has written the text of the first pass on its socket, and
\* thread 2 is inside the second pass, holding the lock.
C22_Witness ==
    /\ lock = 2
    /\ pass[2].pc = "scan"
    /\ Len(blog) = 2
    /\ sockOut[1] = <<WelcomeText, blog[1]>>

\* The only frames written on a socket that do not come from the Subscriber
\* queue are the welcome and the acks; the Registry never carries either.
FromQueue(text) == ~IsJson(text, "ack") /\ text # WelcomeText

\* The frames the handler of c has written from its queue, in socket order.
Drained(c) == SelectSeq(sockOut[c], FromQueue)

\* C23: the frames a handler writes from its Subscriber queue are the
\* texts the Registry enqueued for that Subscriber, in the order of their
\* enqueuing: while the handler lives, what it has written followed by what
\* still waits in its queue is exactly what was enqueued, so nothing is
\* duplicated, skipped or reordered; once it has ended, what it wrote is
\* still a prefix of what was enqueued.
C23_DrainInOrder ==
    \A c \in Conn :
        /\ \A i \in 1..Len(enq[c]) : FromQueue(enq[c][i])
        /\ rxAlive[c] => Drained(c) \o queue[c] = enq[c]
        /\ Len(Drained(c)) <= Len(enq[c])
        /\ Drained(c) = SubSeq(enq[c], 1, Len(Drained(c)))

\* Witness: a live handler has written two different texts from its queue.
C23_Witness ==
    \E c \in Conn :
        /\ rxAlive[c]
        /\ Len(Drained(c)) = 2
        /\ Drained(c)[1] # Drained(c)[2]
        /\ Drained(c) = enq[c]

\* The handler thread of connection c exists and runs.
HandlerRuns(c) == hpc[c] \notin {"none", "exited"}

\* The owner's steps: a command enqueued, events drained, a list taken.
OwnerStepped ==
    \/ Len(cmd_chan') > Len(cmd_chan)
    \/ Len(evt_chan') < Len(evt_chan)
    \/ taken' # taken
    \/ takenp' # takenp

\* C24: sockets are confined to their dedicated threads: every frame
\* written on, and every frame read from, the socket of a connection is
\* written or read by a step of that connection's running handler thread, so
\* never by the accept loop, and no step of the owner changes what is on the
\* worker's socket.
C24_SocketConfinement ==
    [][/\ \A c \in Conn :
             (sockOut'[c] # sockOut[c] \/ Len(sockIn'[c]) < Len(sockIn[c]))
                => HandlerRuns(c) /\ apc' = apc
       /\ OwnerStepped => UNCHANGED <<socket, wire, inbox>>]_vars

\* The worker's last step met a transport failure.
WorkerFailed == wlast.out \in {"err", "fatal", "encode_err", "no_socket"}

\* C25: no transport error ends the process: the relay is always still
\* serving (its accept loop has not returned), and a client worker whose last
\* step met a dial, write, read or encode failure is back at its command
\* wait.
C25_ErrorsRecovered ==
    /\ Serving
    /\ WorkerFailed => wpc \in {"idle", "read"}

\* C26: the Session Handle never waits for the worker: whatever the worker
\* is doing, a dial that has not returned included, connect, disconnect and
\* send can be taken (as long as the owner has commands left to issue) and
\* poll can be taken whenever events wait; a step of the owner only appends
\* one command to the command queue or empties the event queue, and changes
\* nothing of the worker, its socket or the remote end.
C26_HandleNonBlocking ==
    /\ [](ncmd < MaxCmds
            => /\ ENABLED OwnerConnect
               /\ ENABLED OwnerDisconnect
               /\ \A m \in Messages : ENABLED OwnerSend(m))
    /\ [](evt_chan # <<>> => ENABLED OwnerPoll)
    /\ [][OwnerStepped
            => /\ UNCHANGED <<workerVars, remoteVars, dials, wire, dropped>>
               /\ \/ /\ Len(cmd_chan') = Len(cmd_chan) + 1
                     /\ SubSeq(cmd_chan', 1, Len(cmd_chan)) = cmd_chan
                     /\ UNCHANGED evt_chan
                  \/ /\ evt_chan' = <<>>
                     /\ UNCHANGED cmd_chan
                  \/ UNCHANGED <<cmd_chan, evt_chan>>]_vars

\* Witness: the worker is inside a dial, and the command queue holds a
\* command the owner issued during that dial.
C26_Witness ==
    /\ wpc = "dialing"
    /\ cmd_chan # <<>>
    /\ Last(cmd_chan).at = "Connecting"
    /\ Last(cmd_chan).kind = "Disconnect"

\* The Disconnect commands waiting in the command queue.
IsDisconnect(command) == command.kind = "Disconnect"
DisconnectsQueued == Len(SelectSeq(cmd_chan, IsDisconnect))

\* C27: Disconnect is cooperative. While the worker is inside a dial no
\* command is taken from the queue and the dial ends only by returning; a
\* Disconnect is consumed at the command wait only, and its consumption leaves
\* the worker without a socket, not connected, with one Disconnected event
\* emitted; the worker gets a socket again only out of a dial, and enters a
\* dial only by consuming a Connect. With a worker that keeps being scheduled
\* and dials that return, every Disconnect waiting in the queue is eventually
\* consumed.
C27_DisconnectCooperative ==
    /\ [][/\ wpc = "dialing"
               => /\ Len(cmd_chan') >= Len(cmd_chan)
                  /\ dials' = dials
                  /\ wpc' # "dialing" => wlast'.op \in {"dial", "auth"}
          /\ Consumes("Disconnect")
               => /\ wpc = "idle"
                  /\ socket' = 0
                  /\ ~connected'
                  /\ EmitsOnly(RealtimeEvent("Disconnected", Some(Str("Closed socket")),
                                             None, None, None))
          /\ (socket = 0 /\ socket' # 0) => wpc = "dialing"
          /\ (wpc # "dialing" /\ wpc' = "dialing") => Consumes("Connect")]_vars
    /\ \A n \in 1..MaxCmds : (DisconnectsQueued = n) ~> (DisconnectsQueued < n)

\* Witness: a Disconnect issued while the worker was inside a dial was
\* consumed after that dial had returned with a socket; the worker now holds
\* no socket and its last event is the Disconnected one.
C27_Witness ==
    /\ wlast.op = "disconnect"
    /\ wlast.at = "Connecting"
    /\ wlast.out = "Connected"
    /\ socket = 0
    /\ ~connected
    /\ elast = Some(RealtimeEvent("Disconnected", Some(Str("Closed socket")), None, None, None))

\* C28: the text encode produces is always the Message variant with
\* client_id unset, and decoding it gives a Message result whose author,
\* body, sent_at and channel_id are those of the message encoded and whose
\* attachments are the list encoded, in its order.
C28_RoundTrip ==
    /\ codec.pc \in {"encoded", "decoded"} /\ "message" \in DOMAIN codec
         => /\ IsJson(codec.text, "message")
            /\ codec.text.client_id = Null
    /\ codec.pc = "decoded" /\ codec.from = "message"
         => /\ codec.result.kind = "Message"
            /\ codec.result.inbound.message.author = codec.message.author
            /\ codec.result.inbound.message.body = codec.message.body
            /\ codec.result.inbound.message.sent_at = codec.message.sent_at
            /\ codec.result.inbound.message.channel_id = codec.message.channel_id
            /\ codec.result.inbound.attachments = codec.attachments

\* Witness: a message with a local id and two different attachments went
\* through encode and decode; the result has both, in order, and id 0.
C28_Witness ==
    /\ codec.pc = "decoded"
    /\ codec.from = "message"
    /\ codec.result.kind = "Message"
    /\ codec.message.id # codec.result.inbound.message.id
    /\ Len(codec.attachments) = 2
    /\ codec.attachments[1] # codec.attachments[2]
    /\ codec.result.inbound.attachments = codec.attachments

\* A plain frame was decoded; its fields, split at every tab.
DecodedFrame == codec.pc = "decoded" /\ codec.from = "frame"
FrameFields == codec.text.fields

\* C29: a plain frame of at least four tab-separated fields whose second
\* field is an integer decodes to a Message result with the first field as
\* author, the second as channel id, the third as sent-at, no attachments,
\* and as body everything after the third tab, further tabs included.
C29_LegacyDecode ==
    (DecodedFrame /\ Len(FrameFields) >= 4 /\ IsI64(FrameFields[2]))
        => /\ codec.result.kind = "Message"
           /\ codec.result.inbound.message.author = FrameFields[1]
           /\ codec.result.inbound.message.channel_id = ParseI64(FrameFields[2])
           /\ codec.result.inbound.message.sent_at = FrameFields[3]
           /\ codec.result.inbound.message.body = SubSeq(FrameFields, 4, Len(FrameFields))
           /\ codec.result.inbound.attachments = <<>>

\* Witness: a frame with four tabs was decoded; its body holds the fourth.
C29_Witness ==
    /\ DecodedFrame
    /\ Len(FrameFields) = 5
    /\ IsI64(FrameFields[2])
    /\ codec.result.kind = "Message"
    /\ Len(codec.result.inbound.message.body) = 2

\* C30: a plain frame with fewer than four tab-separated fields decodes
\* to a decode error, never to a Message; the legacy path accepts a frame only
\* when it has its four fields.
C30_MalformedIsError ==
    /\ (DecodedFrame /\ Len(FrameFields) < 4) => codec.result.kind = "Err"
    /\ (DecodedFrame /\ codec.result.kind = "Message") => Len(FrameFields) >= 4

\* --------------------------------------------------------------- C31..C40
\* C31: a frame that is a JSON object whose type is none of message, auth,
\* ack, presence, or is missing, decodes to a decode error, never to a guessed
\* variant; a structured auth, ack or presence frame never decodes to a
\* Message result.
C31_UnknownTagRejected ==
    /\ (codec.pc = "decoded" /\ codec.text.form = "object") => codec.result.kind = "Err"
    /\ (codec.pc = "decoded" /\ codec.from = "payload") => codec.result.kind # "Message"

\* C32: every wake of the worker loop (a command taken, or the wait timed
\* out) that ends its command handling connected goes on, in the same
\* iteration, to the read step, whatever the command was; the read step is one
\* read attempt, after which the worker is back at its command wait.
C32_ReadEachWake ==
    [][/\ (WorkerStepped /\ wpc # "read" /\ connected') => wpc' = "read"
       /\ (WorkerStepped /\ wpc = "read") => (wpc' = "idle" /\ wlast'.op = "read")]_vars

\* ------------------------------ two sessions connected through the relay
\* The session of the model (connection 1 of the relay) and a second client
\* (connection 2), both Connected, with a network that delivers every frame
\* and on which no read or write fails. Of the second client only the path of
\* an inbound frame is kept: its worker's read step and its owner's poll.

\* The n-th message the owner of the first session sends.
NthMessage(n) ==
    [message |-> [id |-> n, author |-> "you", body |-> Str(I64Str(n)),
                  sent_at |-> "09:15", channel_id |-> 1],
     attachments |-> IF n = 1 THEN <<"a.png">> ELSE <<>>]

\* What the relay wrote for the Auth frame of a client: the Ack on its
\* socket, the Presence to every Subscriber.
AuthAckText == ServerEncode(AckFor(ServerDecode(AuthPayloadText)))
OnlineText == BroadcastTextFor(AuthPayloadText)

\* The frames on the socket of connection c once the first client, and then
\* the second, has connected and authenticated.
HandshakeFrames(c) ==
    IF c = 1 THEN <<WelcomeText, AuthAckText, OnlineText, OnlineText>>
    ELSE IF c = 2 THEN <<WelcomeText, AuthAckText, OnlineText>>
    ELSE <<>>

\* Both clients are Connected, every frame of the two handshakes has been
\* delivered, read, polled and taken; the counters of the bounds start here.
E2EInit ==
    /\ subscribers = <<1, 2>>
    /\ rxAlive = [c \in Conn |-> c <= 2]
    /\ queue = [c \in Conn |-> <<>>]
    /\ enq = [c \in Conn |-> SelectSeq(HandshakeFrames(c), FromQueue)]
    /\ sockOut = [c \in Conn |-> HandshakeFrames(c)]
    /\ sockIn = [c \in Conn |-> <<>>]
    /\ peerOpen = [c \in Conn |-> TRUE]
    /\ hpc = [c \in Conn |-> IF c <= 2 THEN "read" ELSE "none"]
    /\ hframe = [c \in Conn |-> NoFrame]
    /\ hlog = [c \in Conn |-> IF c <= 2
                              THEN <<[op |-> "read", text |-> AuthPayloadText],
                                     [op |-> "ack", text |-> AuthAckText],
                                     [op |-> "bcast", text |-> OnlineText]>>
                              ELSE <<>>]
    /\ blog = <<OnlineText, OnlineText>>
    /\ nconn = 2
    /\ apc = "accept"
    /\ nsent = 0
    /\ status = "Connected"
    /\ last_message = InboundEvent(OnlineText).message
    /\ last_error = None
    /\ incoming = <<>>
    /\ incoming_presence = <<>>
    /\ cmd_tx = TRUE
    /\ workers = 1
    /\ cmd_chan = <<>>
    /\ evt_chan = <<>>
    /\ connected = TRUE
    /\ socket = 1
    /\ wpc = "idle"
    /\ inbox = <<>>
    /\ remoteUp = TRUE
    /\ dials = 1
    /\ wire = <<AuthPayloadText>>
    /\ dropped = {}
    /\ elast = Some(InboundEvent(OnlineText))
    /\ wlast = [op |-> "read", out |-> "would_block"]
    /\ ncmd = 0
    /\ nin = 0
    /\ rlog = HandshakeFrames(1)
    /\ taken = InboundOf(MapSeq(HandshakeFrames(1), InboundEvent))
    /\ takenp = PresenceOf(MapSeq(HandshakeFrames(1), InboundEvent))
    /\ polled = <<InboundEvent(OnlineText)>>
    /\ lock = 0
    /\ pass = [t \in Conn |-> IdlePass]
    /\ codec = NoCodec
    /\ net = [up |-> 1, down |-> [c \in Conn |-> Len(HandshakeFrames(c))]]
    /\ peer = NoPeer

\* RealtimeClient::send_message of the owner's next message
E2EOwnerSend ==
    /\ OwnerSend(NthMessage(ncmd + 1))

\* SendMessage arm, the write succeeding
E2EWorkerSend ==
    /\ WorkerSend
    /\ wlast'.out = "ok"

\* The network delivers to the relay the next frame the worker wrote.
NetUp ==
    /\ net.up < Len(wire)
    /\ sockIn' = [sockIn EXCEPT ![1] = Append(@, wire[net.up + 1])]
    /\ net' = [net EXCEPT !.up = @ + 1]
    /\ UNCHANGED <<subscribers, rxAlive, queue, enq, sockOut, peerOpen, hpc, hframe, hlog,
                   blog, nconn, apc, nsent>>
    /\ UNCHANGED <<clientVars, lock, pass, codec, peer>>

\* The network delivers to the session the next frame the relay wrote on the
\* socket of connection 1.
NetDownSession ==
    /\ net.down[1] < Len(sockOut[1])
    /\ inbox' = Append(inbox, sockOut[1][net.down[1] + 1])
    /\ net' = [net EXCEPT !.down[1] = @ + 1]
    /\ UNCHANGED <<handleVars, workerVars, histVars, flowVars, cmd_chan, evt_chan, ncmd,
                   remoteUp, nin>>
    /\ UNCHANGED <<relayVars, lock, pass, codec, peer>>

\* The network delivers to the second client the next frame the relay wrote
\* on the socket of connection 2.
NetDownPeer ==
    /\ net.down[2] < Len(sockOut[2])
    /\ peer' = [peer EXCEPT !.inbox = Append(@, sockOut[2][net.down[2] + 1])]
    /\ net' = [net EXCEPT !.down[2] = @ + 1]
    /\ UNCHANGED <<relayVars, clientVars, lock, pass, codec>>

\* The read step of the second client's worker: ws.read() returns a text
\* frame, the event of its decode is sent.
PeerRead ==
    /\ peer.inbox # <<>>
    /\ peer' = [peer EXCEPT !.inbox = Tail(@),
                            !.evt_chan = Append(@, InboundEvent(Head(peer.inbox)))]
    /\ UNCHANGED <<relayVars, clientVars, lock, pass, codec, net>>

\* RealtimeClient::poll of the second client's owner
PeerPoll ==
    /\ peer.evt_chan # <<>>
    /\ LET h == PollLoop([status |-> "Connected", last_message |-> None,
                          last_error |-> None, incoming |-> peer.incoming,
                          incoming_presence |-> <<>>], peer.evt_chan)
       IN  peer' = [peer EXCEPT !.evt_chan = <<>>, !.incoming = h.incoming]
    /\ UNCHANGED <<relayVars, clientVars, lock, pass, codec, net>>

\* The drain loop, the write succeeding
E2EDrainOne(c) ==
    /\ HDrainOne(c)
    /\ rxAlive' = rxAlive

\* The steps of the session's worker, and of the handler of connection c.
E2EWorker == E2EWorkerSend \/ WorkerTimeout \/ WorkerRead
E2EHandler(c) ==
    HReadText(c) \/ HReadWouldBlock(c) \/ HAck(c) \/ HBroadcast(c) \/ E2EDrainOne(c)

E2ENext ==
    \/ E2EOwnerSend
    \/ OwnerPoll
    \/ E2EWorkerSend
    \/ WorkerTimeout
    \/ WorkerRead
    \/ NetUp
    \/ NetDownSession
    \/ NetDownPeer
    \/ \E c \in Conn : HReadText(c)
    \/ \E c \in Conn : HReadWouldBlock(c)
    \/ \E c \in Conn : HAck(c)
    \/ \E c \in Conn : HBroadcast(c)
    \/ \E c \in Conn : E2EDrainOne(c)
    \/ PeerRead
    \/ PeerPoll

\* Every thread keeps being scheduled and the network delivers.
E2ESpec ==
    /\ E2EInit
    /\ [][E2ENext]_vars
    /\ WF_vars(E2EWorker)
    /\ WF_vars(NetUp)
    /\ WF_vars(NetDownPeer)
    /\ \A c \in {1, 2} : WF_vars(E2EHandler(c))
    /\ WF_vars(PeerRead)
    /\ WF_vars(PeerPoll)

\* The inbound messages the second client's owner has or is about to get, in
\* the order of their events.
PeerInbound == peer.incoming \o InboundOf(peer.evt_chan)

\* C33: with both clients Connected and no I/O failure, the inbound
\* messages that reach the second client's owner are, one for one and in the
\* order of their sending, the messages the first owner sent: same author,
\* body, sent_at, channel_id and attachments; and with every thread scheduled
\* again and again, the n-th Send issued is eventually in the second owner's
\* incoming list.
C33_EndToEnd ==
    /\ [](\A i \in DOMAIN PeerInbound :
            /\ i <= ncmd
            /\ PeerInbound[i].message.author = NthMessage(i).message.author
            /\ PeerInbound[i].message.body = NthMessage(i).message.body
            /\ PeerInbound[i].message.sent_at = NthMessage(i).message.sent_at
            /\ PeerInbound[i].message.channel_id = NthMessage(i).message.channel_id
            /\ PeerInbound[i].attachments = NthMessage(i).attachments)
    /\ \A n \in 1..MaxCmds : (ncmd >= n) ~> (Len(peer.incoming) >= n)

\* Witness: the second owner holds both messages, the first with its
\* attachment, in the order sent.
C33_Witness ==
    /\ Len(peer.incoming) = 2
    /\ peer.incoming[1].message.body = Str("1")
    /\ peer.incoming[1].attachments = <<"a.png">>
    /\ peer.incoming[2].message.body = Str("2")

\* C34: the worker's connected flag is set exactly when it holds a
\* socket, in every state between two steps of its loop, whichever path (dial
\* success or failure, Auth failure, Disconnect, write failure, read failure)
\* led there.
C34_FlagIffSocket == connected <=> socket # 0

\* Witness: a write of the SendMessage arm failed; the worker is at its
\* command wait with neither flag nor socket, the socket it had is dropped.
C34_Witness ==
    /\ wpc = "idle"
    /\ wlast.op = "send"
    /\ wlast.out \in {"fatal", "would_block"}
    /\ ~connected
    /\ socket = 0
    /\ dropped = {1}

\* C35: whenever no emitted event is left unpolled and the worker is at
\* its command wait (no dial in progress, no iteration under way), the
\* handle's status is Connected if the worker holds a socket and Disconnected
\* if it holds none; it is never Connecting.
C35_StatusAgrees ==
    (evt_chan = <<>> /\ wpc = "idle")
        => /\ status = (IF socket # 0 THEN "Connected" ELSE "Disconnected")
           /\ status # "Connecting"

\* Witness: the session was connected, then disconnected, and the owner has
\* polled every event: the handle says Disconnected and the socket is gone.
C35_Witness ==
    /\ evt_chan = <<>>
    /\ wpc = "idle"
    /\ wlast.op = "disconnect"
    /\ wlast.out = "Connected"
    /\ status = "Disconnected"
    /\ last_message = Some(Str("Closed socket"))
    /\ socket = 0

\* --------------------------------------- the session over its whole life
\* The client session started fresh, or with its worker already running
\* (connected, or back at its command wait after a failed dial), the counters
\* of the bounds starting there; the owner may drop the handle, which closes
\* the command channel.

\* The worker is running and connected; the owner has polled the events of
\* the handshake.
ConnectedClient ==
    /\ status = "Connected"
    /\ last_message = Some(Str("Handshake complete"))
    /\ last_error = None
    /\ incoming = <<>>
    /\ incoming_presence = <<>>
    /\ cmd_tx = TRUE
    /\ workers = 1
    /\ cmd_chan = <<>>
    /\ evt_chan = <<>>
    /\ connected = TRUE
    /\ socket = 1
    /\ wpc = "idle"
    /\ inbox = <<>>
    /\ remoteUp = TRUE
    /\ dials = 1
    /\ wire = <<AuthPayloadText>>
    /\ dropped = {}
    /\ elast = Some(RealtimeEvent("Connected", Some(Str("Handshake complete")), None, None,
                                  None))
    /\ wlast = [op |-> "read", out |-> "would_block"]
    /\ ncmd = 0
    /\ nin = 0
    /\ rlog = <<>>
    /\ taken = <<>>
    /\ takenp = <<>>
    /\ polled = <<RealtimeEvent("Connected", Some(Str("Handshake complete")), None, None,
                                 None)>>

\* The worker is running, its only dial failed; the owner has polled the
\* events.
DialFailedClient ==
    /\ status = "Disconnected"
    /\ last_message = None
    /\ last_error = Some(Str("Connection refused"))
    /\ incoming = <<>>
    /\ incoming_presence = <<>>
    /\ cmd_tx = TRUE
    /\ workers = 1
    /\ cmd_chan = <<>>
    /\ evt_chan = <<>>
    /\ connected = FALSE
    /\ socket = 0
    /\ wpc = "idle"
    /\ inbox = <<>>
    /\ remoteUp = FALSE
    /\ dials = 1
    /\ wire = <<>>
    /\ dropped = {}
    /\ elast = Some(RealtimeEvent("Disconnected", None, Some(Str("Connection refused")),
                                  None, None))
    /\ wlast = [op |-> "dial", out |-> "err"]
    /\ ncmd = 0
    /\ nin = 0
    /\ rlog = <<>>
    /\ taken = <<>>
    /\ takenp = <<>>
    /\ polled = <<RealtimeEvent("Disconnected", None, Some(Str("Connection refused")),
                                 None, None)>>

LifeInit ==
    /\ RelayInit
    /\ AuxInit
    /\ ClientInit \/ ConnectedClient \/ DialFailedClient

\* The RealtimeClient is dropped, and its cmd_tx with it: the channel is
\* closed behind the commands already sent (the mark is what recv_timeout
\* meets once they are received).
ClosedMark == [kind |-> "Closed", payload |-> None, at |-> "Dropped"]
SenderDropped == \E i \in DOMAIN cmd_chan : cmd_chan[i].kind = "Closed"
HandleAlive == ~SenderDropped /\ wpc # "exited"

OwnerDrop ==
    /\ cmd_tx
    /\ HandleAlive
    /\ cmd_chan' = Append(cmd_chan, ClosedMark)
    /\ UNCHANGED <<handleVars, workerVars, remoteVars, histVars, flowVars, evt_chan, ncmd,
                   relayVars, auxVars>>

\* The owner's calls, on a handle that still exists.
LifeConnect ==
    /\ HandleAlive
    /\ OwnerConnect

LifeDisconnect ==
    /\ HandleAlive
    /\ OwnerDisconnect

LifeSend ==
    /\ HandleAlive
    /\ \E m \in Messages : OwnerSend(m)

LifePoll ==
    /\ HandleAlive
    /\ OwnerPoll

\* Err(mpsc::RecvTimeoutError::Disconnected) => break: the thread ends and
\* its locals, the socket among them, are dropped.
WorkerExit ==
    /\ Received("Closed")
    /\ wpc' = "exited"
    /\ connected' = FALSE
    /\ DropSocket
    /\ wlast' = [op |-> "exit", out |-> WorkerStatus]
    /\ UNCHANGED <<dials, wire, evt_chan, elast>>
    /\ UNCHANGED <<handleVars, flowVars, ncmd, nin, relayVars, auxVars>>

\* The steps of the worker thread, its end included.
LifeWorker == WorkerNext \/ WorkerExit

LifeNext ==
    \/ LifeConnect
    \/ LifeDisconnect
    \/ LifeSend
    \/ LifePoll
    \/ OwnerDrop
    \/ WorkerConnect
    \/ \E err \in DialErrors : WorkerDialErr(err)
    \/ \E enc \in EncodeOutcomes, wr \in {"ok", "would_block", "fatal"} : WorkerDialOk(enc, wr)
    \/ WorkerDisconnect
    \/ WorkerSend
    \/ WorkerTimeout
    \/ WorkerRead
    \/ WorkerExit
    \/ \E text \in RemoteFrames : RemoteSend(text)
    \/ RemoteClose

\* The worker thread keeps being scheduled and its dials return.
LifeSpec == LifeInit /\ [][LifeNext]_vars /\ WF_vars(LifeWorker)

\* The text a step of the worker writes on the socket, if it writes one.
Written == IF Len(wire') > Len(wire) THEN <<wire'[Len(wire')]>> ELSE <<>>

\* C36: a send that cannot reach a socket is dropped silently. The step that
\* consumes a SendMessage while the worker holds no socket removes it from
\* the queue and changes nothing else: no event, no status, nothing written,
\* nothing kept. On a handle whose worker was never started only connect
\* starts the worker and queues a command, only disconnect touches the
\* handle (its "Already disconnected" note), and a send changes neither the
\* handle nor any queue.
\* A message is written only by the step that consumes its SendMessage with
\* a socket held, and a new socket has carried nothing but its Auth, so a
\* dropped send is never written after a later Connect.
C36_SendDroppedSilently ==
    [][/\ (WorkerStepped /\ wpc = "idle" /\ cmd_chan # <<>>
             /\ Head(cmd_chan).kind = "SendMessage" /\ socket = 0)
          => /\ cmd_chan' = Tail(cmd_chan)
             /\ wpc' = "idle"
             /\ UNCHANGED <<evt_chan, wire, connected, socket, dials, handleVars>>
       /\ ~cmd_tx
          => \/ cmd_tx' /\ Len(cmd_chan') = 1 /\ cmd_chan'[1].kind = "Connect"
             \/ /\ last_message' = Some(Str("Already disconnected"))
                /\ UNCHANGED <<cmd_chan, evt_chan, wire, cmd_tx>>
             \/ UNCHANGED <<cmd_chan, evt_chan, wire, handleVars>>
       /\ Written # <<>>
          => \/ /\ wpc = "dialing"
                /\ Written = <<AuthPayloadText>>
             \/ /\ wpc = "idle" /\ socket # 0
                /\ Consumes("SendMessage")
                /\ LET m == Head(cmd_chan).payload[1]
                   IN  Written = <<ClientEncode(m.message, m.attachments)>>
       /\ (socket' # socket /\ socket' # 0) => wire' \in {<<>>, <<AuthPayloadText>>}]_vars

\* A SendMessage was consumed with no socket held and a Connect is queued
\* behind it; nothing has been written.
C36_Witness ==
    /\ wlast = [op |-> "send", out |-> "no_socket"]
    /\ Len(cmd_chan) = 1
    /\ cmd_chan[1].kind = "Connect"
    /\ wire = <<>>
    /\ socket = 0

\* C39: the worker's loop ends if and only if the owner's command sender has
\* been dropped. Only the step that meets the closed channel at the command
\* wait ends the thread, so no Disconnect, failed dial, fatal I/O error or
\* malformed frame does; once the sender is dropped the thread does end; and
\* a handle never has a second worker, so a later Connect is served by the
\* same thread.
C39_WorkerLifetime ==
    /\ [][(wpc # "exited" /\ wpc' = "exited")
            => (wpc = "idle" /\ cmd_chan = <<ClosedMark>> /\ wlast'.op = "exit")]_vars
    /\ []((wpc = "exited" \/ SenderDropped) => cmd_tx)
    /\ [](workers <= 1)
    /\ SenderDropped ~> (wpc = "exited")

\* The worker lost its first socket and, still the only worker of the
\* handle, served a later Connect and is connected on a second socket.
C39_Witness ==
    /\ workers = 1
    /\ wpc # "exited"
    /\ dropped = {1}
    /\ dials = 2
    /\ socket = 2
    /\ connected
    /\ elast = Some(RealtimeEvent("Connected", Some(Str("Handshake complete")), None, None,
                                  None))

\* The frame handler c reacts to is a Message or an Auth.
Acknowledged(c) == ServerDecode(hframe[c]).variant \in {"Message", "Auth"}

\* C37: the broadcast of a Message frame, and of the Presence made for an
\* Auth, also queues the text on the channel of the handler that read the
\* frame: its own Subscriber is registered, its receiver alive. At that step
\* the Ack for the frame is already the last frame written on that peer's
\* socket (if the peer is still there) and the text is not yet written; the
\* handler writes on the socket from its channel only in the drain, oldest
\* text first. So the sender gets its own frame back, after the Ack.
C37_SelfEchoAfterAck ==
    [][\A c \in Conn :
          /\ (HandlerStep(c) /\ Last(hlog'[c]).op = "bcast" /\ Acknowledged(c))
             => LET text == IF ServerDecode(hframe[c]).variant = "Message" THEN hframe[c]
                            ELSE PresenceText(ServerDecode(hframe[c]).user, "online")
                    ack == ServerEncode(AckFor(ServerDecode(hframe[c])))
                IN  /\ rxAlive[c]
                    /\ c \in Range(subscribers')
                    /\ Last(hlog'[c]).text = text
                    /\ queue'[c] = Append(queue[c], text)
                    /\ enq'[c] = Append(enq[c], text)
                    /\ Last(hlog[c]) = [op |-> "ack", text |-> ack]
                    /\ peerOpen[c] => Last(sockOut[c]) = ack
                    /\ sockOut'[c] = sockOut[c]
                    /\ hpc'[c] = "drain"
          /\ (sockOut'[c] # sockOut[c] /\ hpc[c] \notin {"none", "ack"})
             => /\ hpc[c] = "drain"
                /\ sockOut'[c] = Append(sockOut[c], Head(queue[c]))
                /\ queue'[c] = Tail(queue[c])]_vars

\* The only connection sent a Message: its peer got the welcome, then the
\* Ack, then its own frame back.
C37_Witness ==
    /\ nconn = 1
    /\ LET text == MsgText("you", Str("hi"), "09:15", 1, Null, Some(<<"a.png">>))
       IN  sockOut[1] = <<WelcomeText, ServerEncode(AckFor(ServerDecode(text))), text>>

\* The step is a broadcast pass.
IsPass == Len(blog') = Len(blog) + 1

\* C38: the Registry is pruned lazily. A step that is not a broadcast pass
\* removes no Subscriber, so the Subscriber of an exited handler stays; a
\* pass leaves exactly the Subscribers whose receiver is alive, in order, so
\* it removes those of the exited handlers and none of a running one. The
\* Registry grows only by the one Subscriber an accept appends, and no
\* connection is in it twice. A registered Subscriber's receiver is gone
\* exactly when its handler has exited.
C38_LazyPruning ==
    /\ [][/\ ~IsPass => \/ subscribers' = subscribers
                        \/ /\ apc = "accept"
                           /\ nconn' = nconn + 1
                           /\ subscribers' = Append(subscribers, nconn')
          /\ IsPass => subscribers' = SelectSeq(subscribers, LAMBDA c : rxAlive[c])
          /\ \A c \in Conn :
                (HandlerRuns(c) /\ c \in Range(subscribers)) => c \in Range(subscribers')]_vars
    /\ [](\A i, j \in DOMAIN subscribers : subscribers[i] = subscribers[j] => i = j)
    /\ [](\A c \in Range(subscribers) : c <= nconn /\ (~rxAlive[c] <=> hpc[c] = "exited"))
    /\ [](\A c \in Conn : HandlerRuns(c) => c \in Range(subscribers))

\* The handler of the first connection has exited and a later pass has
\* removed its Subscriber; the second connection's handler runs and its
\* Subscriber is still registered.
C38_Witness ==
    /\ hpc[1] = "exited"
    /\ HandlerRuns(2)
    /\ subscribers = <<2>>
    /\ blog # <<>>

\* The step is a poll that drains at least one event.
Polls == evt_chan # <<>> /\ evt_chan' = <<>>

\* C40: a poll overwrites status, last_message and last_error with each
\* event it drains, so after it they are those of the last event drained,
\* and last_error is empty when that event carries no error, whatever the
\* events before it carried; the inbound messages and the presence updates
\* of all the events drained are appended to the handle's lists, in order.
C40_PollOverwrites ==
    [][Polls => /\ polled' = evt_chan
                /\ status' = Last(evt_chan).status
                /\ last_message' = Last(evt_chan).message
                /\ last_error' = Last(evt_chan).error
                /\ incoming' = incoming \o InboundOf(evt_chan)
                /\ incoming_presence' = incoming_presence \o PresenceOf(evt_chan)]_vars

\* One poll drained an event carrying an error and, after it, an event
\* carrying none: no error is left on the handle.
C40_Witness ==
    /\ Len(polled) = 2
    /\ polled[1].error # None
    /\ polled[2].error = None
    /\ status = polled[2].status
    /\ last_error = None
    /\ evt_chan = <<>>

====
